---- MODULE Spec2Model ----
(***************************************************************************)
(* Model of the session validation gate of taskly-api                      *)
(* (src/src/middleware/enhancedAuth.ts), of the login service and of the   *)
(* emergency session revocation of the security monitoring service.        *)
(*                                                                         *)
(* Requests are handled by async handlers: every `await` on the store or   *)
(* on the identity verifier is a point where another request or the        *)
(* environment may run, so a handler is one action per awaited store       *)
(* operation.  Writing an audit row touches only the rows of the writing   *)
(* request and is folded into the step that issues it.  Time is counted    *)
(* in minutes and advances by half the inactivity timeout.                 *)
(*                                                                         *)
(* Specifications:                                                         *)
(*   Spec         one session row, the clock runs to MaxTime: the          *)
(*                deadline checks of the gate;                             *)
(*   SessionsSpec up to MaxSessions session rows, the clock makes one      *)
(*                step: the multi-session cleanup and the revocations;     *)
(*   RaceSpec     every token has an active session, two gate requests     *)
(*                run concurrently;                                        *)
(*   FaultSpec    Spec with store operations and the verifier failing.     *)
(***************************************************************************)
EXTENDS Integers, Sequences, FiniteSets, TLC

VARIABLES
    now,                \* wall clock (new Date()), in minutes
    issuedTo,           \* identity verifier: access token -> member it was issued to
    user_sessions,      \* table user_sessions: session id -> row
    req,                \* the requests in flight: position and locals of requireAuth
    audit_log,          \* table audit_log, the rows grouped by the request that wrote them
    security_incidents, \* table security_incidents, grouped the same way
    faults,             \* whether the store and the verifier may fail
    mon,                \* SecurityMonitoringService: the event being processed
    app                 \* the controllers and services behind the gate and their tables

vars == <<now, issuedTo, user_sessions, req, audit_log, security_incidents, faults, mon, app>>

\* The state of the gate and of its tables, and of the controllers.
gateVars == <<now, issuedTo, user_sessions, req, audit_log, security_incidents, faults, app>>

\* The state of the gate and of the monitoring service.
serviceVars == <<now, issuedTo, user_sessions, req, audit_log, security_incidents, faults, mon>>

(***************************************************************************)
(* Bounds and program constants                                            *)
(***************************************************************************)
MaxSessions == 2
MaxTime == 45
InactivityMinutes == 30

HalfTimeout == InactivityMinutes \div 2
Members == {"m1", "m2"}
Ips == {"ip1", "ip2"}
Reqs == {"r1", "r2"}
SessionIds == 1 .. MaxSessions
\* Bearer tokens: token i is the access token stored in session i; token 0
\* is a bearer string the identity verifier has never issued.
Tokens == 0 .. MaxSessions
\* Lifetimes a session row is inserted with (expires_at - created_at), and the
\* IP addresses it is inserted with.
Lifetimes == {3 * HalfTimeout}
InsertIps == {"ip1"}

NoUser == "none"
NullText == "null"
NullTime == 0 - 1

RevocationReasons ==
    {"expired", "auto_logout", "multiple_sessions_detected", "security_incident"}

StoreOutcomes == IF faults THEN BOOLEAN ELSE {TRUE}

(***************************************************************************)
(* calculateRiskScore and logSecurityEvent of the gate                     *)
(***************************************************************************)
riskScores(eventType) ==
    CASE eventType = "rate_limit_exceeded" -> 30
      [] eventType = "invalid_token" -> 40
      [] eventType = "invalid_session" -> 50
      [] eventType = "permission_denied" -> 20
      [] eventType = "role_denied" -> 25
      [] eventType = "group_access_denied" -> 35
      [] eventType = "admin_access_denied" -> 60
      [] eventType = "unregistered_device" -> 70
      [] eventType = "ip_address_change" -> 40
      [] eventType = "multiple_active_sessions" -> 80
      [] eventType = "user_agent_change" -> 20
      [] eventType = "auto_logout" -> 10
      [] OTHER -> 30

Min(a, b) == IF a < b THEN a ELSE b

calculateRiskScore(eventType, severity) ==
    LET baseScore == riskScores(eventType)
        adjusted == CASE severity = "critical" -> baseScore + 30
                      [] severity = "high" -> baseScore + 20
                      [] severity = "medium" -> baseScore + 10
                      [] OTHER -> baseScore
    IN  Min(adjusted, 100)

getAutomatedResponse(eventType) ==
    CASE eventType = "multiple_active_sessions" -> "Revoked all other active sessions"
      [] eventType = "unregistered_device" -> "Blocked access from unregistered device"
      [] eventType = "rate_limit_exceeded" -> "Applied rate limiting"
      [] eventType = "invalid_token" -> "Rejected request with invalid token"
      [] OTHER -> "Logged security event"

AuditRow(eventType, severity) ==
    [event_type |-> "security", action |-> eventType, severity |-> severity,
     risk_score |-> calculateRiskScore(eventType, severity)]

IncidentRow(eventType, severity, member) ==
    [incident_type |-> eventType, severity |-> severity, member_id |-> member,
     automated_response |-> getAutomatedResponse(eventType)]

\* logSecurityEvent: the audit_log rows of a request after logging one event;
\* ok is whether the store accepted the insert (its error is not looked at).
LoggedAudit(rows, eventType, severity, ok) ==
    IF ok THEN Append(rows, AuditRow(eventType, severity)) ELSE rows

\* logSecurityEvent: an incident row is inserted for severity high or critical.
LoggedIncident(rows, eventType, severity, member, ok) ==
    IF severity \in {"high", "critical"} /\ ok
    THEN Append(rows, IncidentRow(eventType, severity, member))
    ELSE rows

(***************************************************************************)
(* Store queries of the gate                                               *)
(***************************************************************************)
Inserted == DOMAIN user_sessions

\* Mutant: the lookup without the is_active filter.
SessionLookupAnyState(member, token) ==
    {s \in Inserted : /\ user_sessions[s].member_id = member
                      /\ user_sessions[s].session_token = token}

\* .eq('member_id', user.id).eq('session_token', token).eq('is_active', true)
SessionLookup(member, token) ==
    {s \in Inserted : /\ user_sessions[s].member_id = member
                      /\ user_sessions[s].session_token = token
                      /\ user_sessions[s].is_active}

\* .eq('member_id', userId).eq('is_active', true)
ActiveSessions(member) ==
    {s \in Inserted : user_sessions[s].member_id = member /\ user_sessions[s].is_active}

\* Mutant: a session is still good at the very minute it expires.
IsExpiredStrict(row, t) == row.expires_at < t

\* new Date(session.expires_at) <= new Date()
IsExpired(row, t) == row.expires_at <= t

\* new Date(session.auto_logout_at) <= new Date()
IsTimedOut(row, t) == row.auto_logout_at <= t

\* update({is_active: false, revoked_at, revoked_reason}).eq('id', session.id)
RevokedRow(row, reason) ==
    [row EXCEPT !.is_active = FALSE, !.revoked_at = now, !.revoked_reason = reason]

\* Mutant: the activity update forgets the request IP.
TouchedRowKeepsIp(row, ip) ==
    [row EXCEPT !.last_activity_at = now, !.auto_logout_at = now + InactivityMinutes]

\* Mutant: the activity update also marks the session active.
TouchedRowReactivates(row, ip) ==
    [row EXCEPT !.last_activity_at = now,
                !.auto_logout_at = now + InactivityMinutes,
                !.ip_address = ip,
                !.is_active = TRUE]

\* update({last_activity_at, auto_logout_at, ip_address}).eq('id', session.id)
TouchedRow(row, ip) ==
    [row EXCEPT !.last_activity_at = now,
                !.auto_logout_at = now + InactivityMinutes,
                !.ip_address = ip]

\* Mutant: the cleanup without .neq('id', session.id).
OthersToRevokeAll(member, sid) == ActiveSessions(member)

\* update({...revoked...}).eq('member_id', userId).eq('is_active', true).neq('id', session.id)
OthersToRevoke(member, sid) == ActiveSessions(member) \ {sid}

(***************************************************************************)
(* Requests: the locals of one run of requireAuth.  auth is the answer of  *)
(* supabase.auth.getUser, sid the id of the session row the lookup         *)
(* returned (0: none yet), status and error the response (status "next":   *)
(* next() was called).  wrote records whether an update issued by the      *)
(* request has changed a user_sessions row.                                *)
(***************************************************************************)
IdleReq ==
    [pc |-> "idle", header |-> "missing", token |-> 0, ip |-> "ip1",
     auth |-> "pending", user |-> NoUser, sid |-> 0,
     status |-> "none", error |-> NullText, wrote |-> FALSE]

\* The response is sent; of the locals only the verifier's answer is kept.
Done(rq, status, error) ==
    [IdleReq EXCEPT !.pc = "done", !.status = status, !.error = error,
                    !.auth = rq.auth, !.wrote = rq.wrote]

\* Mutant: a failed logging write is thrown to the caller.
LogThrowsOnFailure(ok) == ~ok

\* logSecurityEvent (lines 519-541): whether the call throws when the store
\* answers ok; its try/catch swallows every failure.
LogThrows(ok) == FALSE

\* The response after a logSecurityEvent call: a throw inside the try block
\* of requireAuth is answered by its catch block (lines 201-210), a throw
\* in another middleware by the error handler of the framework.
Responded(rq, status, error, okLog) ==
    IF LogThrows(okLog)
    THEN Done(rq, "500", "Authentication service error")
    ELSE Done(rq, status, error)

InFlight(r) == req[r].pc \notin {"idle", "done"}

(***************************************************************************)
(* Environment: the clock, the login service, the insertion of session     *)
(* rows                                                                    *)
(***************************************************************************)
Tick ==
    /\ now < MaxTime
    /\ now' = now + HalfTimeout
    /\ UNCHANGED <<issuedTo, user_sessions, req, audit_log, security_incidents, faults, mon, app>>

\* loginWithEmail (both services): signInWithPassword returns a fresh access
\* token for the member; members and group_memberships are read; the
\* user_sessions table is neither read nor written.
LoginSessions(m, t) == user_sessions

loginWithEmail(m) ==
    \E t \in 1 .. MaxSessions :
        /\ issuedTo[t] = NoUser
        /\ \A u \in 1 .. MaxSessions : u < t => issuedTo[u] # NoUser
        /\ issuedTo' = [issuedTo EXCEPT ![t] = m]
        /\ user_sessions' = LoginSessions(m, t)
        /\ UNCHANGED <<now, req, audit_log, security_incidents, faults, mon, app>>

\* A row of table user_sessions as inserted for access token t: is_active
\* defaults to TRUE, last_activity_at to NOW(), expires_at is NOT NULL; the
\* inserter sets auto_logout_at to the inactivity deadline.
NewSessionRow(t, ip, life) ==
    [member_id |-> issuedTo[t], session_token |-> t, is_active |-> TRUE,
     last_activity_at |-> now, auto_logout_at |-> now + InactivityMinutes,
     expires_at |-> now + life, revoked_at |-> NullTime,
     revoked_reason |-> NullText, ip_address |-> ip]

InsertSession ==
    \E t \in 1 .. MaxSessions, ip \in InsertIps, life \in Lifetimes :
        /\ issuedTo[t] # NoUser
        /\ t \notin Inserted
        /\ user_sessions' = user_sessions @@ (t :> NewSessionRow(t, ip, life))
        /\ UNCHANGED <<now, issuedTo, req, audit_log, security_incidents, faults, mon, app>>

(***************************************************************************)
(* requireAuth                                                             *)
(***************************************************************************)
\* Lines 74-80: a request arrives; without a Bearer header it is answered at once.
Arrive(r) ==
    /\ req[r].pc \in {"idle", "done"}
    /\ \E header \in {"missing", "bearer"}, token \in Tokens, ip \in Ips :
          /\ header = "missing" => token = 0 /\ ip = "ip1"
          /\ LET rq == [IdleReq EXCEPT !.header = header, !.token = token, !.ip = ip]
             IN  req' = [req EXCEPT ![r] =
                            IF header = "missing"
                            THEN Done(rq, "401", "Missing or invalid token")
                            ELSE [rq EXCEPT !.pc = "getUser"]]
    /\ audit_log' = [audit_log EXCEPT ![r] = <<>>]
    /\ security_incidents' = [security_incidents EXCEPT ![r] = <<>>]
    /\ UNCHANGED <<now, issuedTo, user_sessions, faults, mon, app>>

\* The answers supabase.auth.getUser(token) can give.
GetUserAnswers(token) ==
    (IF token \in 1 .. MaxSessions /\ issuedTo[token] # NoUser
     THEN {"user", "error"} ELSE {"error"})
    \cup (IF faults THEN {"thrown"} ELSE {})

\* Mutant: an unresolved token is logged as a session failure.
UnresolvedEventAsSession == "invalid_session"

\* Lines 86-93: the event the gate logs for an unresolved token.
UnresolvedEvent == "invalid_token"

\* Lines 84-95 and the catch block 201-210.
Verify(r) ==
    /\ req[r].pc = "getUser"
    /\ \E answer \in GetUserAnswers(req[r].token), ok \in StoreOutcomes :
          LET rq == [req[r] EXCEPT !.auth = answer]
          IN  /\ req' = [req EXCEPT ![r] =
                    CASE answer = "user" ->
                           [rq EXCEPT !.pc = "lookup", !.user = issuedTo[rq.token]]
                      [] answer = "error" ->
                           Responded(rq, "401", "Invalid or expired token", ok)
                      [] OTHER ->
                           Done(rq, "500", "Authentication service error")]
              /\ audit_log' = [audit_log EXCEPT ![r] =
                    CASE answer = "user" -> @
                      [] answer = "error" -> LoggedAudit(@, UnresolvedEvent, "none", ok)
                      [] OTHER -> LoggedAudit(@, "auth_error", "none", ok)]
    /\ UNCHANGED <<now, issuedTo, user_sessions, security_incidents, faults, mon, app>>

\* Mutant: the inactivity check comes first.
RevocationDueInactivityFirst(row, t) ==
    IF IsTimedOut(row, t) THEN "auto_logout"
    ELSE IF IsExpired(row, t) THEN "expired"
    ELSE NullText

\* Lines 116 and 130: the reason the looked-up session is revoked for at
\* time t, or NullText when it passes both checks.  Expiry is checked first.
RevocationDue(row, t) ==
    IF IsExpired(row, t) THEN "expired"
    ELSE IF IsTimedOut(row, t) THEN "auto_logout"
    ELSE NullText

\* performSecurityChecks, lines 456-468: the IP address change event.
IpChanged(row, ip) == row.ip_address # NullText /\ row.ip_address # ip

\* Lines 98-113, the two deadline checks 116 and 130, and the start of
\* performSecurityChecks (456-468).
Lookup(r) ==
    /\ req[r].pc = "lookup"
    /\ \E ok \in StoreOutcomes, okLog \in StoreOutcomes :
          LET found == IF ok THEN SessionLookup(req[r].user, req[r].token) ELSE {}
          IN  IF found = {}
              THEN /\ req' = [req EXCEPT ![r] =
                              Responded(@, "401", "Session invalid or expired", okLog)]
                   /\ audit_log' = [audit_log EXCEPT ![r] =
                                       LoggedAudit(@, "invalid_session", "none", okLog)]
              ELSE LET s == CHOOSE x \in found : TRUE
                       row == user_sessions[s]
                       due == RevocationDue(row, now)
                   IN  /\ req' = [req EXCEPT ![r] =
                              [@ EXCEPT !.sid = s,
                                        !.pc = CASE due = "expired" -> "revoke_expired"
                                                 [] due = "auto_logout" -> "revoke_auto"
                                                 [] OTHER -> "count"]]
                       /\ audit_log' = [audit_log EXCEPT ![r] =
                              IF due = NullText /\ IpChanged(row, req[r].ip)
                              THEN LoggedAudit(@, "ip_address_change", "medium", okLog)
                              ELSE @]
    /\ UNCHANGED <<now, issuedTo, user_sessions, security_incidents, faults, mon, app>>

\* The table after update(values).eq('id', sid); ok: the store applied it.
UpdateById(sid, newRow, ok) ==
    IF ok /\ sid \in Inserted
    THEN [user_sessions EXCEPT ![sid] = newRow]
    ELSE user_sessions

\* Lines 117-126.
RevokeExpired(r) ==
    /\ req[r].pc = "revoke_expired"
    /\ \E ok \in StoreOutcomes :
          /\ user_sessions' =
                UpdateById(req[r].sid, RevokedRow(user_sessions[req[r].sid], "expired"), ok)
          /\ req' = [req EXCEPT ![r] =
                        Done([@ EXCEPT !.wrote = @ \/ user_sessions' # user_sessions],
                             "401", "Session expired")]
    /\ UNCHANGED <<now, issuedTo, audit_log, security_incidents, faults, mon, app>>

\* Lines 131-145.
RevokeAutoLogout(r) ==
    /\ req[r].pc = "revoke_auto"
    /\ \E ok \in StoreOutcomes, okLog \in StoreOutcomes :
          /\ user_sessions' =
                UpdateById(req[r].sid, RevokedRow(user_sessions[req[r].sid], "auto_logout"), ok)
          /\ req' = [req EXCEPT ![r] =
                        Responded([@ EXCEPT !.wrote = @ \/ user_sessions' # user_sessions],
                                  "401", "Session timed out due to inactivity", okLog)]
          /\ audit_log' = [audit_log EXCEPT ![r] = LoggedAudit(@, "auto_logout", "none", okLog)]
    /\ UNCHANGED <<now, issuedTo, security_incidents, faults, mon, app>>

\* Lines 498-512: the user agent of the request differs enough from the
\* session's (similarity < 0.8); whether it does is an input of the request.
LoggedUserAgent(rows, changed, ok) ==
    IF changed THEN LoggedAudit(rows, "user_agent_change", "low", ok) ELSE rows

\* performSecurityChecks, lines 471-477: the select of the member's active
\* sessions; a failed select gives null and the cleanup is skipped.
MultipleActive(member, ok) == ok /\ Cardinality(ActiveSessions(member)) > 1

CountActive(r) ==
    /\ req[r].pc = "count"
    /\ \E ok \in StoreOutcomes, okLog \in StoreOutcomes, uaChanged \in BOOLEAN :
          IF MultipleActive(req[r].user, ok)
          THEN /\ req' = [req EXCEPT ![r].pc = "revoke_others"]
               /\ ~uaChanged
               /\ okLog
               /\ UNCHANGED audit_log
          ELSE /\ req' = [req EXCEPT ![r].pc = "touch"]
               /\ audit_log' = [audit_log EXCEPT ![r] = LoggedUserAgent(@, uaChanged, okLog)]
    /\ UNCHANGED <<now, issuedTo, user_sessions, security_incidents, faults, mon, app>>

\* The severity logged with multiple_active_sessions (line 481).
MultipleSessionsSeverity == "high"

\* performSecurityChecks, lines 478-495 and 498-512.
RevokeOthers(r) ==
    /\ req[r].pc = "revoke_others"
    /\ \E ok \in StoreOutcomes, okLog \in StoreOutcomes, okInc \in StoreOutcomes,
          uaChanged \in BOOLEAN :
          LET others == IF ok THEN OthersToRevoke(req[r].user, req[r].sid) ELSE {}
          IN  /\ user_sessions' =
                    [s \in Inserted |->
                        IF s \in others
                        THEN RevokedRow(user_sessions[s], "multiple_sessions_detected")
                        ELSE user_sessions[s]]
              /\ req' = [req EXCEPT ![r].pc = "touch",
                                     ![r].wrote = @ \/ user_sessions' # user_sessions]
              /\ audit_log' = [audit_log EXCEPT ![r] =
                    LoggedUserAgent(
                        LoggedAudit(@, "multiple_active_sessions", MultipleSessionsSeverity, okLog),
                        uaChanged, okLog)]
              /\ security_incidents' = [security_incidents EXCEPT ![r] =
                    LoggedIncident(@, "multiple_active_sessions", MultipleSessionsSeverity,
                                   req[r].user, okInc)]
    /\ UNCHANGED <<now, issuedTo, faults, mon, app>>

\* Lines 152-159.
Touch(r) ==
    /\ req[r].pc = "touch"
    /\ \E ok \in StoreOutcomes :
          /\ user_sessions' =
                UpdateById(req[r].sid, TouchedRow(user_sessions[req[r].sid], req[r].ip), ok)
          /\ req' = [req EXCEPT ![r].pc = "profile",
                                 ![r].wrote = @ \/ user_sessions' # user_sessions]
    /\ UNCHANGED <<now, issuedTo, audit_log, security_incidents, faults, mon, app>>

\* Lines 162-200 and the catch block: the profile and the memberships come
\* from the auth service; profile: a profile was returned, member: no
\* X-Group-ID header or an active membership of the requested group,
\* thrown: one of the two fetches threw.
Finish(r) ==
    /\ req[r].pc = "profile"
    /\ \E profile \in BOOLEAN, member \in BOOLEAN, thrown \in (IF faults THEN BOOLEAN ELSE {FALSE}),
          okLog \in StoreOutcomes :
          /\ req' = [req EXCEPT ![r] =
                CASE thrown -> Done(@, "500", "Authentication service error")
                  [] ~profile -> Done(@, "404", "User profile not found")
                  [] ~member -> Done(@, "403", "Access denied: not a member of requested group")
                  [] OTHER -> Done(@, "next", NullText)]
          /\ ~profile => member
          /\ audit_log' = [audit_log EXCEPT ![r] =
                IF thrown THEN LoggedAudit(@, "auth_error", "none", okLog) ELSE @]
    /\ UNCHANGED <<now, issuedTo, user_sessions, security_incidents, faults, mon, app>>

(***************************************************************************)
(* The middlewares before and after the gate: the rate limiter, the        *)
(* authorization checks and the consent check                              *)
(***************************************************************************)
\* createRateLimit (lines 27-50): the handler the limiter calls for a
\* client over its limit; whether a client is over its limit is decided by
\* the limiter and is an input here.
RateLimited(r) ==
    /\ req[r].pc \in {"idle", "done"}
    /\ \E ip \in Ips, okLog \in StoreOutcomes :
          /\ req' = [req EXCEPT ![r] =
                        Responded([IdleReq EXCEPT !.header = "bearer", !.ip = ip],
                                  "429", "Too many requests", okLog)]
          /\ audit_log' = [audit_log EXCEPT ![r] =
                              LoggedAudit(<<>>, "rate_limit_exceeded", "none", okLog)]
    /\ security_incidents' = [security_incidents EXCEPT ![r] = <<>>]
    /\ UNCHANGED <<now, issuedTo, user_sessions, faults, mon, app>>

\* The authorization middlewares and the event each logs on denial:
\* requirePermission, requireRole, requireGroupMembership, requireAdmin.
DeniedEvent(check) ==
    CASE check = "permission" -> "permission_denied"
      [] check = "role" -> "role_denied"
      [] check = "group" -> "group_access_denied"
      [] check = "admin" -> "admin_access_denied"

AuthorizationChecks == {"permission", "role", "group", "admin"}

\* Lines 216-332: a request the gate has passed on reaches an authorization
\* middleware; allowed is whether req.user has what the middleware asks
\* for, groupId whether the request names a group.
Authorize(r) ==
    /\ req[r].pc = "done" /\ req[r].status = "next"
    /\ \E check \in AuthorizationChecks, allowed \in BOOLEAN, groupId \in BOOLEAN,
          okLog \in StoreOutcomes :
          /\ check # "group" => groupId
          /\ ~groupId => allowed
          /\ req' = [req EXCEPT ![r] =
                CASE ~groupId -> Done(@, "400", "Group ID required")
                  [] allowed -> @
                  [] OTHER -> Responded(@, "403", "Access denied", okLog)]
          /\ audit_log' = [audit_log EXCEPT ![r] =
                IF groupId /\ ~allowed
                THEN LoggedAudit(@, DeniedEvent(check), "none", okLog)
                ELSE @]
    /\ UNCHANGED <<now, issuedTo, user_sessions, security_incidents, faults, mon, app>>

\* Mutant: a request without consent has the active sessions revoked.
ConsentSessionsRevoked ==
    [s \in Inserted |->
        IF user_sessions[s].is_active
        THEN RevokedRow(user_sessions[s], "security_incident")
        ELSE user_sessions[s]]

\* requireDataProcessingConsent (lines 421-446) reads data_consent; table
\* user_sessions after the check.
ConsentSessions == user_sessions

\* Lines 421-446: granted is the answer of the data_consent select (no row
\* or a failed select: not granted).
Consent(r) ==
    /\ req[r].pc = "done" /\ req[r].status = "next"
    /\ \E granted \in BOOLEAN :
          /\ req' = [req EXCEPT ![r] =
                        IF granted THEN @
                        ELSE Done(@, "451", "Data processing consent required")]
          /\ user_sessions' = IF granted THEN user_sessions
                              ELSE ConsentSessions
    /\ UNCHANGED <<now, issuedTo, audit_log, security_incidents, faults, mon, app>>

(***************************************************************************)
(* SecurityMonitoringService.emergencySessionRevocation                    *)
(***************************************************************************)
\* update({is_active: false, revoked_at, revoked_reason}).eq('member_id', userId)
SessionsAfterEmergencyRevocation(m, ok) ==
    [s \in Inserted |->
        IF ok /\ user_sessions[s].member_id = m
        THEN RevokedRow(user_sessions[s], "security_incident")
        ELSE user_sessions[s]]

emergencySessionRevocation(m) ==
    /\ \E s \in Inserted : user_sessions[s].member_id = m
    /\ \E ok \in StoreOutcomes :
          user_sessions' = SessionsAfterEmergencyRevocation(m, ok)
    /\ UNCHANGED <<now, issuedTo, req, audit_log, security_incidents, faults, mon, app>>

(***************************************************************************)
(* SecurityMonitoringService: risk scoring                                 *)
(***************************************************************************)
ScoreCap == 100
HighRiskThreshold == 70
AutoBlockThreshold == 80
MaxAttempts == 6

\* JavaScript values a score can take: a number, or NaN.
Num(n) == [tag |-> "number", n |-> n]
NaN == [tag |-> "NaN", n |-> 0]

\* Event types handed to the service: the keys of baseScores, a string
\* that is no key, and a string that names a property every object literal
\* inherits from Object.prototype.
TableEventTypes ==
    {"login_failure", "brute_force_detected", "suspicious_location",
     "multiple_failed_logins", "data_exfiltration_detected",
     "malicious_payload_detected", "privilege_escalation", "unusual_data_access",
     "session_hijacking", "account_enumeration"}
PrototypeKeys == {"constructor"}
MonEventTypes == TableEventTypes \cup {"unknown_event"} \cup PrototypeKeys

\* details: repeated_attempts is a count, the three flags are booleans.
MonDetails ==
    [repeated_attempts : 0 .. MaxAttempts, new_device : BOOLEAN,
     new_location : BOOLEAN, off_hours : BOOLEAN]

\* baseScores[eventType]: the table is an object literal, so a key of
\* Object.prototype reads the inherited function and any other missing key
\* reads undefined.
baseScores(eventType) ==
    CASE eventType = "login_failure" -> Num(20)
      [] eventType = "brute_force_detected" -> Num(80)
      [] eventType = "suspicious_location" -> Num(60)
      [] eventType = "multiple_failed_logins" -> Num(70)
      [] eventType = "data_exfiltration_detected" -> Num(95)
      [] eventType = "malicious_payload_detected" -> Num(90)
      [] eventType = "privilege_escalation" -> Num(85)
      [] eventType = "unusual_data_access" -> Num(50)
      [] eventType = "session_hijacking" -> Num(90)
      [] eventType = "account_enumeration" -> Num(40)
      [] eventType \in PrototypeKeys -> [tag |-> "function", n |-> 0]
      [] OTHER -> [tag |-> "undefined", n |-> 0]

\* The sum of the context adjustments (lines 316-319).
Adjustments(details) ==
    (IF details.repeated_attempts > 5 THEN 20 ELSE 0)
    + (IF details.new_device THEN 15 ELSE 0)
    + (IF details.new_location THEN 15 ELSE 0)
    + (IF details.off_hours THEN 10 ELSE 0)

\* calculateEventRiskScore: baseScores[eventType] || 30, the adjustments,
\* Math.min(score, 100).  A function is truthy, so it is kept by ||; adding
\* to it and taking Math.min of the result gives NaN.
calculateEventRiskScore(eventType, details) ==
    LET base == baseScores(eventType)
        score == IF base.tag = "undefined" \/ (base.tag = "number" /\ base.n = 0)
                 THEN Num(30) ELSE base
    IN  IF score.tag = "number"
        THEN Num(Min(score.n + Adjustments(details), ScoreCap))
        ELSE NaN

\* riskScore >= k; every comparison with NaN is false.
AtLeast(riskScore, k) == riskScore.tag = "number" /\ riskScore.n >= k

\* Mutant: the boundaries belong to the lower bucket.
calculateSeverityExclusive(riskScore) ==
    IF riskScore.tag = "number" /\ riskScore.n > 90 THEN "critical"
    ELSE IF riskScore.tag = "number" /\ riskScore.n > 70 THEN "high"
    ELSE IF riskScore.tag = "number" /\ riskScore.n > 50 THEN "medium"
    ELSE "low"

\* calculateSeverity (lines 535-540).
calculateSeverity(riskScore) ==
    IF AtLeast(riskScore, 90) THEN "critical"
    ELSE IF AtLeast(riskScore, 70) THEN "high"
    ELSE IF AtLeast(riskScore, 50) THEN "medium"
    ELSE "low"

NoDetails ==
    [repeated_attempts |-> 0, new_device |-> FALSE, new_location |-> FALSE,
     off_hours |-> FALSE]

\* The audit_log rows with event_type 'auth' and action 'login_failure':
\* for every IP address the number of rows created before, at and after
\* the start of the window of a sweep.
WindowPositions == {"before", "at", "after"}
NoFailures == [ip \in Ips |-> [w \in WindowPositions |-> 0]]

\* The audit_log rows of one member, counted by age (inside the last day,
\* inside the last 30 days, older), hour of the day and IP address.
Ages == {"recent", "month", "old"}
Hours == {3, 14}
ActivityClasses == [age : Ages, hour : Hours, ip : Ips \cup {NullText}]
NoActivity == [c \in ActivityClasses |-> 0]
NoBaseline == [typical_hours |-> {}, typical_ips |-> {}, activities |-> 0]
NoAnalysis == [risk_score |-> 0, anomalies |-> <<>>]

\* The service between two events.  failures is the part of audit_log the
\* brute-force sweep reads, alerts the alerts collected by a sweep or by
\* detectThreats, outcomes what each of the five sweeps of detectThreats
\* does on the store as it is, and sweep the sweep detectThreats is at.
\* activity is the audit_log rows of one member, batches the number of
\* bursts that wrote them; timeWindow, baseline, recent and analysis are the
\* argument, the locals and the result of analyzeUserBehavior.
MonIdle ==
    [pc |-> "idle", eventType |-> "none", details |-> NoDetails,
     riskScore |-> Num(0), severity |-> "none", user |-> NoUser,
     audit |-> <<>>, incidents |-> <<>>, responses |-> <<>>,
     failures |-> NoFailures, alerts |-> <<>>, outcomes |-> <<>>, sweep |-> 0,
     activity |-> NoActivity, batches |-> 0, timeWindow |-> "day",
     baseline |-> NoBaseline, recent |-> NoActivity, analysis |-> NoAnalysis]

\* The value of mon in the specifications that run no monitoring service.
MonOff == [pc |-> "off"]

\* calculateEventRiskScore applied to an event.
ScoreEvent ==
    /\ \E eventType \in MonEventTypes, details \in MonDetails :
          mon' = [MonIdle EXCEPT !.pc = "scored", !.eventType = eventType,
                                 !.details = details,
                                 !.riskScore = calculateEventRiskScore(eventType, details)]
    /\ UNCHANGED gateVars

\* calculateSeverity applied to a score.
BucketScore ==
    /\ \E s \in 0 .. ScoreCap :
          mon' = [MonIdle EXCEPT !.pc = "bucketed", !.riskScore = Num(s),
                                 !.severity = calculateSeverity(Num(s))]
    /\ UNCHANGED gateVars

(***************************************************************************)
(* SecurityMonitoringService.processSecurityEvent: one step per awaited    *)
(* call.  audit, incidents and responses are the audit_log rows, the       *)
(* security_incidents rows and the automated actions of the event being    *)
(* processed.                                                              *)
(***************************************************************************)
\* Mutant: incidents are created from the medium threshold on.
IncidentNeededFromMedium(riskScore) == AtLeast(riskScore, 50)

\* riskScore >= monitoringConfig.riskThresholds.high (line 57).
IncidentNeeded(riskScore) == AtLeast(riskScore, HighRiskThreshold)

\* riskScore >= monitoringConfig.autoBlock.highRiskThreshold (line 62).
ResponseNeeded(riskScore) == AtLeast(riskScore, AutoBlockThreshold)

\* executeAutomatedResponse: the action the switch selects; "none" is the
\* default branch, which only writes to the console.
AutomatedAction(eventType) ==
    CASE eventType = "brute_force_detected" -> "blockIP"
      [] eventType = "suspicious_location" -> "requireAdditionalVerification"
      [] eventType = "multiple_failed_logins" -> "temporaryAccountLock"
      [] eventType = "data_exfiltration_detected" -> "emergencySessionRevocation"
      [] eventType = "malicious_payload_detected" -> "blockIP"
      [] OTHER -> "none"

\* getAutomatedResponseAction (lines 542-552).
getAutomatedResponseAction(incidentType) ==
    CASE incidentType = "brute_force_detected" -> "IP blocked for 1 hour"
      [] incidentType = "suspicious_location" -> "Additional verification required"
      [] incidentType = "multiple_failed_logins" -> "Account temporarily locked"
      [] incidentType = "data_exfiltration_detected" -> "All sessions revoked"
      [] incidentType = "malicious_payload_detected" -> "IP blocked for 24 hours"
      [] OTHER -> "Security event logged"

\* The row createSecurityIncident inserts (lines 163-176).
MonIncidentRow(eventType, riskScore, user) ==
    [incident_type |-> eventType, severity |-> calculateSeverity(riskScore),
     member_id |-> user, risk_score |-> riskScore,
     automated_response |-> getAutomatedResponseAction(eventType)]

\* The position after the incident step, or after the log step when no
\* incident is needed.
AfterIncident(riskScore) == IF ResponseNeeded(riskScore) THEN "respond" ELSE "patterns"

\* Lines 39-54: an event arrives, its score is computed and the audit_log
\* insert is issued.
MonReceive ==
    /\ mon.pc = "idle"
    /\ \A r \in Reqs : req[r].pc = "idle"
    /\ \E eventType \in MonEventTypes, details \in MonDetails, user \in Members :
          mon' = [MonIdle EXCEPT !.pc = "log", !.eventType = eventType,
                                 !.details = details, !.user = user,
                                 !.riskScore = calculateEventRiskScore(eventType, details)]
    /\ UNCHANGED gateVars

\* logSecurityEvent of the service (lines 324-339): the insert's error is
\* not looked at.
MonLog ==
    /\ mon.pc = "log"
    /\ \E ok \in StoreOutcomes :
          mon' = [mon EXCEPT
                     !.audit = IF ok
                               THEN Append(@, [event_type |-> "security",
                                               action |-> mon.eventType,
                                               actor_id |-> mon.user,
                                               risk_score |-> mon.riskScore])
                               ELSE @,
                     !.pc = IF IncidentNeeded(mon.riskScore)
                            THEN "incident" ELSE AfterIncident(mon.riskScore)]
    /\ UNCHANGED gateVars

\* createSecurityIncident (lines 152-193): a failed insert is thrown, and
\* the catch of processSecurityEvent (lines 72-74) ends the processing.
MonIncident ==
    /\ mon.pc = "incident"
    /\ \E ok \in StoreOutcomes :
          mon' = IF ok
                 THEN [mon EXCEPT
                          !.incidents = Append(@, MonIncidentRow(mon.eventType, mon.riskScore,
                                                                 mon.user)),
                          !.severity = calculateSeverity(mon.riskScore),
                          !.pc = AfterIncident(mon.riskScore)]
                 ELSE [mon EXCEPT !.pc = "failed"]
    /\ UNCHANGED gateVars

\* executeAutomatedResponse (lines 198-232).
MonRespond ==
    /\ mon.pc = "respond"
    /\ LET action == AutomatedAction(mon.eventType)
       IN  /\ mon' = [mon EXCEPT !.responses = Append(@, action), !.pc = "patterns"]
           /\ \E ok \in StoreOutcomes :
                 user_sessions' =
                     IF action = "emergencySessionRevocation"
                     THEN SessionsAfterEmergencyRevocation(mon.user, ok)
                     ELSE user_sessions
    /\ UNCHANGED <<now, issuedTo, req, audit_log, security_incidents, faults, app>>

\* analyzeSecurityPatterns and checkAlertThresholds (lines 66-70) read
\* audit_log and write to the console.
MonPatterns ==
    /\ mon.pc = "patterns"
    /\ mon' = [mon EXCEPT !.pc = "done"]
    /\ UNCHANGED gateVars

\* processSecurityEvent has returned; the service waits for the next event.
MonReturn ==
    /\ mon.pc \in {"done", "failed"}
    /\ mon' = MonIdle
    /\ UNCHANGED gateVars

(***************************************************************************)
(* SecurityMonitoringService.detectBruteForceAttacks                       *)
(***************************************************************************)
BruteForceThreshold == 10
MaxFailures == 11

\* Mutant: the window start itself is outside the window.
InWindowStrict(failures, ip) == failures[ip]["after"]

\* .gte('created_at', windowStart): the failures of ip in the window.
InWindow(failures, ip) == failures[ip]["at"] + failures[ip]["after"]

\* .group('ip_address').having('count(*) > 10'): the IP addresses of the
\* rows the query returns.
FlaggedIps(failures) == {ip \in Ips : InWindow(failures, ip) > BruteForceThreshold}

\* The elements of a set of IP addresses in the order the store returns them.
RECURSIVE InOrder(_)
InOrder(S) ==
    IF S = {} THEN <<>>
    ELSE LET x == CHOOSE y \in S : TRUE IN <<x>> \o InOrder(S \ {x})

\* Lines 354-362: the alert pushed for a returned row.
BruteForceAlert(failures, ip) ==
    [type |-> "brute_force_ip", severity |-> "high", ip |-> ip,
     attempts |-> InWindow(failures, ip)]

\* detectBruteForceAttacks (lines 341-365).
detectBruteForceAttacks(failures) ==
    LET rows == InOrder(FlaggedIps(failures))
    IN  [i \in 1 .. Len(rows) |-> BruteForceAlert(failures, rows[i])]

\* The store receives one more failed-login audit row.
RecordFailure ==
    /\ \E ip \in Ips, w \in WindowPositions :
          /\ mon.failures[ip]["before"] + mon.failures[ip]["at"] + mon.failures[ip]["after"]
                < MaxFailures
          /\ mon' = [MonIdle EXCEPT !.failures = [mon.failures EXCEPT ![ip][w] = @ + 1]]
    /\ UNCHANGED gateVars

\* detectBruteForceAttacks is called and returns.
BruteForceSweep ==
    /\ mon.pc = "idle"
    /\ mon' = [mon EXCEPT !.pc = "swept", !.alerts = detectBruteForceAttacks(mon.failures)]
    /\ UNCHANGED gateVars

(***************************************************************************)
(* SecurityMonitoringService.detectThreats                                 *)
(***************************************************************************)
\* The alert types of the five sweeps, in the order detectThreats calls them.
SweepTypes ==
    <<"brute_force_ip", "suspicious_ip_multi_account", "unusual_access_time",
      "potential_account_takeover", "unusual_data_export">>

\* The severity each sweep gives its alerts.
SweepSeverity ==
    <<"high", "medium", "low", "high", "medium">>

\* What an alert of sweeps 2 to 5 is about: an IP address, a member or a
\* processor.
Subjects == {"s1", "s2"}

SweepAlert(k, subject) ==
    [type |-> SweepTypes[k], severity |-> SweepSeverity[k], subject |-> subject]

\* A sweep that throws instead of returning.
Thrown == [thrown |-> TRUE, alerts |-> <<>>]
Returned(alerts) == [thrown |-> FALSE, alerts |-> alerts]

\* What sweep k in 2..5 can do: throw, or return no alert, one alert or an
\* alert for each subject.
SweepOutcomes(k) ==
    {Thrown, Returned(<<>>), Returned(<<SweepAlert(k, "s1")>>),
     Returned(<<SweepAlert(k, "s1"), SweepAlert(k, "s2")>>)}

\* The failed-login rows detectThreats finds: for every IP address either
\* none or a burst of MaxFailures in the window.
BurstTables ==
    {[ip \in Ips |-> [w \in WindowPositions |->
            IF w = "after" /\ ip \in burst THEN MaxFailures ELSE 0]] : burst \in SUBSET Ips}

\* alerts.push(...more)
Pushed(alerts, more) == alerts \o more

\* Lines 80-84: detectThreats is called; the store decides what each sweep
\* will find or whether it throws.
ThreatStart ==
    /\ mon.pc = "idle"
    /\ \E failures \in BurstTables, thrown1 \in BOOLEAN,
          rest \in [2 .. 5 -> UNION {SweepOutcomes(k) : k \in 2 .. 5}] :
          /\ \A k \in 2 .. 5 : rest[k] \in SweepOutcomes(k)
          /\ mon' = [MonIdle EXCEPT
                        !.pc = "sweeping",
                        !.failures = failures,
                        !.sweep = 1,
                        !.outcomes =
                            [k \in 1 .. 5 |->
                                IF k > 1 THEN rest[k]
                                ELSE IF thrown1 THEN Thrown
                                ELSE Returned(detectBruteForceAttacks(failures))]]
    /\ UNCHANGED gateVars

\* Lines 85-105: the next sweep is awaited and its alerts are pushed; a
\* sweep that throws leaves the try block.
ThreatSweep ==
    /\ mon.pc = "sweeping"
    /\ LET outcome == mon.outcomes[mon.sweep]
       IN  IF outcome.thrown
           THEN mon' = [mon EXCEPT !.pc = "returned"]
           ELSE mon' = [mon EXCEPT
                            !.alerts = Pushed(@, outcome.alerts),
                            !.sweep = @ + 1,
                            !.pc = IF mon.sweep = 5 THEN "returned" ELSE "sweeping"]
    /\ UNCHANGED gateVars

\* Line 110: the caller has the alerts.
ThreatReturn ==
    /\ mon.pc = "returned"
    /\ mon' = MonIdle
    /\ UNCHANGED gateVars

(***************************************************************************)
(* SecurityMonitoringService.analyzeUserBehavior                           *)
(***************************************************************************)
BaselineLimit == 1000
BaselineDays == 30
VolumeFactor == 3
HighActivity == 50
AnomalyPoints == 10
HighActivityPoints == 20
BehaviorScoreCap == 100
MaxBatches == 2

\* The sizes of a burst of audit rows of one class.
Volumes == {1, 60, 720}

\* timeWindow: the default of one day, or a window longer than every row is old.
TimeWindows == {"day", "all"}

\* The number of rows of the classes in S.
RECURSIVE Rows(_, _)
Rows(activity, S) ==
    IF S = {} THEN 0
    ELSE LET c == CHOOSE x \in S : TRUE IN activity[c] + Rows(activity, S \ {c})

\* .gte('created_at', <30 days ago>): the classes of the last 30 days that
\* have rows.  The last day is part of the last 30 days.
LastMonth(activity) ==
    {c \in ActivityClasses : c.age \in {"recent", "month"} /\ activity[c] > 0}

\* .gte('created_at', since): the rows not older than the window start.
Since(activity, timeWindow) ==
    [c \in ActivityClasses |->
        IF c.age = "recent" \/ timeWindow = "all" THEN activity[c] ELSE 0]

\* calculateBehaviorBaseline (lines 617-639) of rows of the classes in P,
\* n rows in all.  average_daily_activity is n / 30; the model keeps n.
calculateBehaviorBaseline(P, n) ==
    [typical_hours |-> {c.hour : c \in P},
     typical_ips |-> {c.ip : c \in P} \ {NullText},
     activities |-> n]

\* getUserBehaviorBaseline (lines 594-605): the baselines the query can
\* give.  Above the limit of 1000 rows the store returns any 1000 of them,
\* so any classes with 1000 rows or more between them can be the ones seen.
BaselinesOf(activity, ok) ==
    LET M == LastMonth(activity)
        n == Rows(activity, M)
    IN  IF ~ok THEN {calculateBehaviorBaseline({}, 0)}
        ELSE IF n <= BaselineLimit THEN {calculateBehaviorBaseline(M, n)}
        ELSE {calculateBehaviorBaseline(P, BaselineLimit) :
                 P \in {Q \in SUBSET M : Rows(activity, Q) >= BaselineLimit}}

Present(recent) == {c \in ActivityClasses : recent[c] > 0}
Length(recent) == Rows(recent, ActivityClasses)

\* detectBehaviorAnomalies (lines 642-666).
UnusualHours(baseline, recent) ==
    {c.hour : c \in Present(recent)} \ baseline.typical_hours

NewIPs(baseline, recent) ==
    ({c.ip : c \in Present(recent)} \ {NullText}) \ baseline.typical_ips

HighVolume(baseline, recent) ==
    Length(recent) * BaselineDays > baseline.activities * VolumeFactor

detectBehaviorAnomalies(baseline, recent) ==
    (IF UnusualHours(baseline, recent) # {}
     THEN <<[kind |-> "Unusual access hours", hours |-> UnusualHours(baseline, recent)]>>
     ELSE <<>>)
    \o
    (IF NewIPs(baseline, recent) # {}
     THEN <<[kind |-> "New IP addresses", count |-> Cardinality(NewIPs(baseline, recent))]>>
     ELSE <<>>)
    \o
    (IF HighVolume(baseline, recent)
     THEN <<[kind |-> "Unusually high activity volume"]>>
     ELSE <<>>)

\* calculateBehaviorRiskScore (lines 668-676).
calculateBehaviorRiskScore(anomalies, recent) ==
    Min(Len(anomalies) * AnomalyPoints
            + (IF Length(recent) > HighActivity THEN HighActivityPoints ELSE 0),
        BehaviorScoreCap)

\* The member's requests write a burst of audit rows.
RecordActivity ==
    /\ mon.pc # "analysed"
    /\ mon.batches < MaxBatches
    /\ \E c \in ActivityClasses, n \in Volumes :
          mon' = [mon EXCEPT !.activity[c] = @ + n, !.batches = @ + 1]
    /\ UNCHANGED gateVars

\* Lines 121-126: analyzeUserBehavior is called and reads the baseline.
BehaviorBaseline ==
    /\ mon.pc = "idle"
    /\ \E timeWindow \in TimeWindows, ok \in StoreOutcomes :
          \E baseline \in BaselinesOf(mon.activity, ok) :
              mon' = [mon EXCEPT !.pc = "baseline", !.timeWindow = timeWindow,
                                 !.baseline = baseline]
    /\ UNCHANGED gateVars

\* Lines 128-141: the recent activity is read and compared with the baseline.
BehaviorRecent ==
    /\ mon.pc = "baseline"
    /\ \E ok \in StoreOutcomes :
          LET recent == IF ok THEN Since(mon.activity, mon.timeWindow) ELSE NoActivity
              anomalies == detectBehaviorAnomalies(mon.baseline, recent)
          IN  mon' = [mon EXCEPT
                         !.pc = "analysed",
                         !.recent = recent,
                         !.analysis =
                             [risk_score |-> calculateBehaviorRiskScore(anomalies, recent),
                              anomalies |-> anomalies]]
    /\ UNCHANGED gateVars

\* The caller has the result.
BehaviorReturn ==
    /\ mon.pc = "analysed"
    /\ mon' = [MonIdle EXCEPT !.activity = mon.activity, !.batches = mon.batches]
    /\ UNCHANGED gateVars

(***************************************************************************)
(* The controllers and services behind the gate                            *)
(***************************************************************************)
\* The member who asks for the deletion of their data, and the admin.
Requester == "m1"
Admin == "m2"

\* data_deletion_requests: no row yet.
NoRequest == [status |-> "none", request_type |-> "none"]

\* A handler that is not running.
IdleHandler == [pc |-> "idle", action |-> "none", response |-> "none"]

\* A field that is not given (undefined).
Absent == "undefined"

\* A request body without fields, and no parsed object.
NoInput ==
    [title |-> Absent, description |-> Absent, category |-> Absent, priority |-> Absent,
     group_id |-> Absent, groupId |-> Absent, urgent |-> Absent]
NoResult ==
    [thrown |-> FALSE, title |-> Absent, description |-> Absent, category |-> Absent,
     priority |-> Absent, group_id |-> Absent, urgent |-> Absent]

\* group_memberships of one group: no row for a member.
NoMembership == [status |-> "none", role |-> "none"]

\* The member controller is not handling a request.
IdleCall ==
    [op |-> "none", pc |-> "idle", caller |-> NoUser, target |-> NoUser, role |-> "none",
     inGroup |-> FALSE, guard |-> "none", effects |-> {}, seen |-> NoMembership,
     result |-> "none", changed |-> FALSE]

\* tasks: no row with this id.
TaskIds == {"t1", "t2"}
NoTask == [status |-> "none", completed_at |-> NullText, assigned_to |-> NullText]

\* signupWithEmail is not running and has created no row.  service is the
\* class whose signupWithEmail runs, id the number of the run (the new
\* auth user's id and the new group's id), cleanup the deletions the
\* failing step still has to issue, token whether the result carries a
\* session token; groups, users, members and group_memberships are the rows
\* of groups, of auth.users, of members and of group_memberships.
IdleSignup ==
    [pc |-> "idle", service |-> "none", id |-> 0, cleanup |-> <<>>, token |-> FALSE,
     groups |-> {}, users |-> {}, members |-> {}, group_memberships |-> {}]

\* No controller operation is running and their tables are empty.
\* tasks is the tasks table; memberRows is the members table, memberships the group_memberships rows
\* of the group, invitations the number of invitations rows, call the
\* request the member controller is handling; input and result are the argument and the outcome of validate;
\* request is the row of data_deletion_requests, audit the rows of
\* audit_log in insertion order, cancel and process the two handlers of
\* the deletion request, runs the number of handler runs started;
\* transitions counts the status updates of the request and erased tells
\* whether a deletion was executed for it.
AppIdle ==
    [pc |-> "idle",
     request |-> NoRequest, audit |-> <<>>, cancel |-> IdleHandler,
     process |-> IdleHandler, runs |-> 0, transitions |-> 0, erased |-> FALSE,
     anonymized |-> FALSE,
     input |-> NoInput, result |-> NoResult,
     memberRows |-> {}, memberships |-> [m \in Members |-> NoMembership],
     invitations |-> 0, call |-> IdleCall,
     tasks |-> [t \in TaskIds |-> NoTask],
     signup |-> IdleSignup]

\* The value of app in the specifications of the gate and of the monitoring
\* service, which run no controller and no service behind the gate.
AppOff == [pc |-> "off"]

(***************************************************************************)
(* validate('createTask', d) (validators/taskValidator.ts)                 *)
(***************************************************************************)
TaskPriority == {"Low", "Medium", "High"}
TaskCategory == {"Chores", "Kids", "Work", "Projects", "Personal", "Shopping"}

TitleMin == 1
TitleMax == 100

\* A UUID, and a string that is none.
Uuids == {"123e4567-e89b-12d3-a456-426614174000"}
GroupIdInputs == Uuids \cup {"invalid-uuid", Absent}

\* The titles tried: none, the empty one, a blank, an ordinary one and one
\* of 101 characters.
Titles == {Absent, "", " ", "Test Task", "T101"}

TitleLength(title) ==
    CASE title = "" -> 0
      [] title = " " -> 1
      [] title = "Test Task" -> 9
      [] title = "T101" -> 101

\* .trim()
Trim(title) == IF title = " " THEN "" ELSE title

\* The request bodies tried.  The fields assigned_to, due_date and
\* estimated_minutes are optional and are not given; the booleans are
\* written as in JSON.
CreateTaskInputs ==
    [title : Titles,
     description : {Absent, "Test description"},
     category : {Absent, "Chores", "Work", "InvalidCategory"},
     priority : {Absent, "Medium", "InvalidPriority"},
     group_id : GroupIdInputs,
     groupId : GroupIdInputs,
     urgent : {Absent, "true", "false"}]

\* The key of the group identifier in createTaskSchema.
GroupIdentifier(d) == d.group_id

\* createTaskSchema.parse(d) (lines 13-52): the issues found.
CreateTaskValid(d) ==
    /\ d.title # Absent
    /\ TitleLength(d.title) >= TitleMin
    /\ TitleLength(d.title) <= TitleMax
    /\ d.category \in TaskCategory
    /\ d.priority \in TaskPriority
    /\ GroupIdentifier(d) \in Uuids

\* validate('createTask', d) (lines 134-137): a ZodError is thrown, or the
\* parsed object is returned, with the defaults filled in and the keys the
\* schema does not know stripped.
validate(d) ==
    IF ~CreateTaskValid(d) THEN [NoResult EXCEPT !.thrown = TRUE]
    ELSE [thrown |-> FALSE,
          title |-> Trim(d.title),
          description |-> IF d.description = Absent THEN "" ELSE d.description,
          category |-> d.category,
          priority |-> d.priority,
          group_id |-> GroupIdentifier(d),
          urgent |-> IF d.urgent = Absent THEN "false" ELSE d.urgent]

\* validate('createTask', d) is called.
ValidateCreateTask ==
    /\ app.pc = "idle"
    /\ \E d \in CreateTaskInputs :
          app' = [app EXCEPT !.pc = "validated", !.input = d, !.result = validate(d)]
    /\ UNCHANGED serviceVars

\* The caller has the result.
ValidateReturn ==
    /\ app.pc = "validated"
    /\ app' = [app EXCEPT !.pc = "idle", !.input = NoInput, !.result = NoResult]
    /\ UNCHANGED serviceVars

(***************************************************************************)
(* GDPR deletion requests (taskController.ts, AuthService)                 *)
(***************************************************************************)
MaxRuns == 3

\* Calls of signupWithEmail.
MaxSignups == 2

GdprAuditRow(event_type, action, actor_id) ==
    [event_type |-> event_type, action |-> action, actor_id |-> actor_id]

\* requestDataDeletion (part_010 466-495): the request row is inserted.
RequestDeletion ==
    /\ app.request.status = "none"
    /\ \E t \in {"full", "partial"} :
          app' = [app EXCEPT !.request = [status |-> "pending", request_type |-> t]]
    /\ UNCHANGED serviceVars

\* The other writers of audit_log: updateConsent, acceptPrivacyPolicy and
\* the two logSecurityEvent functions insert a row.
LogEvent ==
    /\ app.runs < MaxRuns
    /\ \E actor \in {Requester, Admin, NullText} :
          app' = [app EXCEPT !.audit = Append(@, GdprAuditRow("gdpr", "consent_updated", actor)),
                             !.runs = @ + 1]
    /\ UNCHANGED serviceVars

\* cancelDeletionRequest, lines 637-654: the request is fetched and checked.
CancelFetch ==
    /\ app.cancel.pc = "idle"
    /\ app.runs < MaxRuns
    /\ app' = [app EXCEPT
                 !.runs = @ + 1,
                 !.cancel =
                     IF app.request.status = "none"
                     THEN [pc |-> "done", action |-> "cancel", response |-> "404"]
                     ELSE IF app.request.status # "pending"
                     THEN [pc |-> "done", action |-> "cancel", response |-> "400"]
                     ELSE [pc |-> "update", action |-> "cancel", response |-> "none"]]
    /\ UNCHANGED serviceVars

\* Lines 656-666: the status is set to cancelled, whatever it is by now.
CancelUpdate ==
    /\ app.cancel.pc = "update"
    /\ app' = [app EXCEPT !.request.status = "cancelled",
                          !.transitions = @ + 1,
                          !.cancel.pc = "log"]
    /\ UNCHANGED serviceVars

\* Lines 668-687: the member's flag is removed, the cancellation is logged
\* and the response is sent.
CancelLog ==
    /\ app.cancel.pc = "log"
    /\ app' = [app EXCEPT
                 !.audit = Append(@, GdprAuditRow("gdpr", "deletion_cancelled", Requester)),
                 !.cancel = [pc |-> "done", action |-> "cancel", response |-> "200"]]
    /\ UNCHANGED serviceVars

\* processDeletionRequest, lines 844-866: the action is checked, the
\* request is fetched and checked.
ProcessFetch ==
    /\ app.process.pc = "idle"
    /\ app.runs < MaxRuns
    /\ \E action \in {"approve", "reject"} :
          app' = [app EXCEPT
                     !.runs = @ + 1,
                     !.process =
                         IF app.request.status = "none"
                         THEN [pc |-> "done", action |-> action, response |-> "404"]
                         ELSE IF app.request.status # "pending"
                         THEN [pc |-> "done", action |-> action, response |-> "400"]
                         ELSE [pc |-> "update", action |-> action, response |-> "none"]]
    /\ UNCHANGED serviceVars

\* Lines 868-881: the status is set to completed or rejected, whatever it
\* is by now.
ProcessUpdate ==
    /\ app.process.pc = "update"
    /\ app' = [app EXCEPT
                 !.request.status =
                     IF app.process.action = "approve" THEN "completed" ELSE "rejected",
                 !.transitions = @ + 1,
                 !.process.pc = IF app.process.action = "approve" THEN "erase" ELSE "log"]
    /\ UNCHANGED serviceVars

\* The rows of user_sessions left by .delete().eq('member_id', m).
SessionsWithout(m) ==
    [s \in {t \in Inserted : user_sessions[t].member_id # m} |-> user_sessions[s]]

\* Lines 883-891 with performFullAccountDeletion steps 1 to 4 (lines
\* 925-953) or performPartialDataDeletion (962-978): the member row is
\* anonymized and the memberships, sessions and consents are deleted, or
\* the tasks of the member are deleted.
ProcessErase ==
    /\ app.process.pc = "erase"
    /\ IF app.request.request_type = "full"
       THEN /\ app' = [app EXCEPT !.erased = TRUE, !.anonymized = TRUE,
                                  !.process.pc = "anonymize"]
            /\ user_sessions' = SessionsWithout(Requester)
       ELSE /\ app' = [app EXCEPT !.erased = TRUE, !.process.pc = "log"]
            /\ UNCHANGED user_sessions
    /\ UNCHANGED <<now, issuedTo, req, audit_log, security_incidents, faults, mon>>

\* Mutant: the audit rows of the member are removed.
AuditWithout(audit, m) == SelectSeq(audit, LAMBDA row : row.actor_id # m)

\* performFullAccountDeletion step 5 (lines 955-959):
\* update({ actor_id: null }).eq('actor_id', m).
AnonymizedAudit(audit, m) ==
    [i \in 1 .. Len(audit) |->
        IF audit[i].actor_id = m THEN [audit[i] EXCEPT !.actor_id = NullText] ELSE audit[i]]

ProcessAnonymize ==
    /\ app.process.pc = "anonymize"
    /\ app' = [app EXCEPT !.audit = AnonymizedAudit(@, Requester), !.process.pc = "log"]
    /\ UNCHANGED serviceVars

\* Lines 893-911: the admin action is logged and the response is sent.
ProcessLog ==
    /\ app.process.pc = "log"
    /\ app' = [app EXCEPT
                 !.audit = Append(@, GdprAuditRow("admin", "deletion_request", Admin)),
                 !.process = [pc |-> "done", action |-> app.process.action, response |-> "200"]]
    /\ UNCHANGED serviceVars

\* A handler has answered and can be called again.
HandlerReturn ==
    /\ \/ app.cancel.pc = "done" /\ app' = [app EXCEPT !.cancel = IdleHandler]
       \/ app.process.pc = "done" /\ app' = [app EXCEPT !.process = IdleHandler]
    /\ UNCHANGED serviceVars

(***************************************************************************)
(* Member controller, groupGuard and member service (part_007)             *)
(***************************************************************************)
Roles == {"admin", "member"}

\* role.permissions.includes(permission): the admin role is the one that
\* holds the member administration permissions.
HasPermission(role, permission) == role = "admin"

\* groupGuard (groupGuard.ts 4-13): 403 unless the caller's group is the
\* requested one, next() otherwise.
groupGuard(inGroup) == IF inGroup THEN "next" ELSE "403"

\* A request arrives at the member controller or the member service.
MemberCall ==
    /\ app.call.pc = "idle"
    /\ \E op \in {"invite", "list", "remove", "role"}, caller \in Members,
          target \in Members, role \in Roles, inGroup \in BOOLEAN :
          app' = [app EXCEPT !.call =
                     [IdleCall EXCEPT
                         !.op = op, !.caller = caller, !.target = target, !.role = role,
                         !.inGroup = inGroup,
                         !.pc = IF op \in {"invite", "list"} THEN "guard" ELSE "check"]]
    /\ UNCHANGED serviceVars

\* memberController.ts 19 / 30 / 86: await groupGuard(req, res, () => {}).
\* The guard answers or calls the empty continuation, and returns; the
\* handler goes on with its next statement in both cases.
MemberGuard ==
    /\ app.call.pc = "guard"
    /\ app' = [app EXCEPT !.call.guard = groupGuard(app.call.inGroup),
                          !.call.pc = "service"]
    /\ UNCHANGED serviceVars

\* getGroupMembers / getGroupAdmins (memberController.ts 20-21, 87-97):
\* the members of the group are read.
MemberList ==
    /\ app.call.pc = "service"
    /\ app.call.op = "list"
    /\ app' = [app EXCEPT !.call.effects = @ \cup {"read"},
                          !.call.result = "ok",
                          !.call.pc = "done"]
    /\ UNCHANGED serviceVars

\* inviteMember, controller line 31 and service lines 168-191: the body is
\* validated, the member is looked up by email and created if missing.
InviteMemberRow ==
    /\ app.call.pc = "service"
    /\ app.call.op = "invite"
    /\ \E valid \in BOOLEAN :
          IF ~valid
          THEN app' = [app EXCEPT !.call.result = "error", !.call.pc = "done"]
          ELSE app' = [app EXCEPT
                          !.memberRows = @ \cup {app.call.target},
                          !.call.effects =
                              IF app.call.target \in app.memberRows THEN @
                              ELSE @ \cup {"member"},
                          !.call.pc = "membership"]
    /\ UNCHANGED serviceVars

\* Lines 193-230: the role is looked up; an existing membership row of any
\* status ends the invitation, otherwise the row is inserted as invited.
InviteMembership ==
    /\ app.call.pc = "membership"
    /\ IF app.memberships[app.call.target].status # "none"
       THEN app' = [app EXCEPT !.call.result = "error", !.call.pc = "done"]
       ELSE app' = [app EXCEPT
                       !.memberships[app.call.target] =
                           [status |-> "invited", role |-> app.call.role],
                       !.call.effects = @ \cup {"membership"},
                       !.call.pc = "invitation"]
    /\ UNCHANGED serviceVars

\* Lines 232-259: the invitation row is inserted and the member returned.
InviteInvitation ==
    /\ app.call.pc = "invitation"
    /\ app' = [app EXCEPT !.invitations = @ + 1,
                          !.call.effects = @ \cup {"invitation"},
                          !.call.result = "ok",
                          !.call.pc = "done"]
    /\ UNCHANGED serviceVars

\* Lines 311-315 and 347-350: a membership row of the caller in the group,
\* of any status, whose role has the permission.
CallerAllowed(membership, permission) ==
    /\ membership.status # "none"
    /\ HasPermission(membership.role, permission)

\* removeMemberFromGroup lines 309-318, updateMemberRole lines 346-353: the
\* caller's memberships are read and the permission is checked.
MemberCheck ==
    /\ app.call.pc = "check"
    /\ LET seen == app.memberships[app.call.caller]
           permission == IF app.call.op = "remove" THEN "members:delete" ELSE "members:write"
       IN  IF CallerAllowed(seen, permission)
           THEN app' = [app EXCEPT !.call.seen = seen, !.call.pc = "update"]
           ELSE app' = [app EXCEPT !.call.seen = seen, !.call.result = "Forbidden",
                                   !.call.pc = "done"]
    /\ UNCHANGED serviceVars

\* removeMemberFromGroup lines 320-332: the membership row of the member is
\* set to removed.
RemoveUpdate ==
    /\ app.call.pc = "update"
    /\ app.call.op = "remove"
    /\ LET row == app.memberships[app.call.target]
           after == IF row.status = "none" THEN row ELSE [row EXCEPT !.status = "removed"]
       IN  app' = [app EXCEPT !.memberships[app.call.target] = after,
                              !.call.changed = (after # row),
                              !.call.result = "ok",
                              !.call.pc = "done"]
    /\ UNCHANGED serviceVars

\* updateMemberRole lines 355-375: the role of the membership row is set.
RoleUpdate ==
    /\ app.call.pc = "update"
    /\ app.call.op = "role"
    /\ LET row == app.memberships[app.call.target]
           after == IF row.status = "none" THEN row ELSE [row EXCEPT !.role = app.call.role]
       IN  app' = [app EXCEPT !.memberships[app.call.target] = after,
                              !.call.changed = (after # row),
                              !.call.result = "ok",
                              !.call.pc = "done"]
    /\ UNCHANGED serviceVars

\* The request is answered.
MemberReturn ==
    /\ app.call.pc = "done"
    /\ app' = [app EXCEPT !.call = IdleCall]
    /\ UNCHANGED serviceVars

(***************************************************************************)
(* Task service (part_008) and completeTask (taskController.ts)            *)
(***************************************************************************)
TaskStatus == {"pending", "in_progress", "completed", "cancelled"}

\* completed_at is null, the time of the server ("now") or a time given by
\* the client ("given").
UpdateInputs ==
    [status : TaskStatus \cup {Absent}, completed_at : {Absent, NullText, "given"}]

\* bulkTaskUpdateSchema: updateTaskSchema.omit({ completed_at: true }).
BulkInputs == [status : TaskStatus \cup {Absent}]

\* updateTask lines 340-349: the completed_at written by the update.
UpdatedCompletedAt(updates) ==
    IF updates.status = "completed" /\ updates.completed_at \in {Absent, NullText}
    THEN "now"
    ELSE IF updates.status # "completed" THEN NullText
    ELSE updates.completed_at

\* The row after update(updateData).
UpdatedTask(row, updates) ==
    [row EXCEPT !.status = IF updates.status = Absent THEN row.status ELSE updates.status,
                !.completed_at = UpdatedCompletedAt(updates)]

\* createTask (lines 163-182): the row is inserted as pending.
createTask ==
    /\ \E t \in TaskIds :
          /\ app.tasks[t].status = "none"
          /\ app' = [app EXCEPT !.tasks[t] = [NoTask EXCEPT !.status = "pending"]]
    /\ UNCHANGED serviceVars

\* updateTask (lines 334-364).
updateTask ==
    /\ \E t \in TaskIds, updates \in UpdateInputs :
          /\ app.tasks[t].status # "none"
          /\ app' = [app EXCEPT !.tasks[t] = UpdatedTask(@, updates)]
    /\ UNCHANGED serviceVars

\* completeTask (taskController.ts 263-281): updateTask with status
\* completed and the time of the controller.
completeTask ==
    /\ \E t \in TaskIds :
          /\ app.tasks[t].status # "none"
          /\ app' = [app EXCEPT !.tasks[t] =
                        UpdatedTask(@, [status |-> "completed", completed_at |-> "given"])]
    /\ UNCHANGED serviceVars

\* assignTask (lines 367-388): assigned_to and updated_at are written; the
\* status and completed_at of the row stay.
assignTask ==
    /\ \E t \in TaskIds, assigned_to \in Members :
          /\ app.tasks[t].status # "none"
          /\ app' = [app EXCEPT !.tasks[t].assigned_to = assigned_to]
    /\ UNCHANGED serviceVars

\* bulkUpdateTasks (lines 404-425): the updates are written to every task
\* of the list as they are.
bulkUpdateTasks ==
    /\ \E ids \in SUBSET TaskIds, updates \in BulkInputs :
          /\ ids # {}
          /\ app' = [app EXCEPT
                        !.tasks = [t \in TaskIds |->
                            IF t \in ids /\ app.tasks[t].status # "none" /\ updates.status # Absent
                            THEN [app.tasks[t] EXCEPT !.status = updates.status]
                            ELSE app.tasks[t]]]
    /\ UNCHANGED serviceVars

(***************************************************************************)
(* signupWithEmail of EnhancedAuthServiceCompatible (part_009) and of      *)
(* AuthService (part_010): one step per awaited call.  A store call that   *)
(* fails returns an error and changes no row.                              *)
(***************************************************************************)
SignupServices == {"EnhancedAuthServiceCompatible", "AuthService"}

\* The order of the awaited calls: part_009 inserts the group first
\* (lines 60-98), part_010 creates the auth user first (lines 71-105).
FirstStep(service) ==
    IF service = "EnhancedAuthServiceCompatible" THEN "group" ELSE "user"

AfterGroup(service) ==
    IF service = "EnhancedAuthServiceCompatible" THEN "user" ELSE "member"

AfterUser(service) ==
    IF service = "EnhancedAuthServiceCompatible" THEN "member" ELSE "group"

\* The deletions a failing step issues before it throws.  part_009 deletes
\* the group when the auth user fails (line 94), the auth user and the group
\* when the member fails (lines 121-122), the auth user, the member and the
\* group when the membership fails (lines 165-167), and nothing when the
\* admin role is not found (lines 136-146); part_010 deletes nothing.
Cleanup(service, step) ==
    IF service = "AuthService" THEN <<>>
    ELSE CASE step = "user" -> <<"groups">>
           [] step = "member" -> <<"users", "groups">>
           [] step = "membership" -> <<"users", "members", "groups">>
           [] OTHER -> <<>>

\* The step failed: issue its deletions, then throw.
Failed(S, step) ==
    IF Cleanup(S.service, step) = <<>>
    THEN [S EXCEPT !.pc = "thrown"]
    ELSE [S EXCEPT !.pc = "cleanup", !.cleanup = Cleanup(S.service, step)]

\* The row the fifth step inserts.
AdminMembership(id) ==
    [member_id |-> id, group_id |-> id, role |-> "admin", status |-> "active"]

\* A call of signupWithEmail starts.
signupWithEmail ==
    /\ app.signup.pc \in {"idle", "thrown", "returned"}
    /\ app.signup.id < MaxSignups
    /\ \E service \in SignupServices :
          app' = [app EXCEPT !.signup.pc = FirstStep(service),
                             !.signup.service = service,
                             !.signup.id = @ + 1,
                             !.signup.cleanup = <<>>,
                             !.signup.token = FALSE]
    /\ UNCHANGED serviceVars

\* The insert into groups.
InsertGroup ==
    /\ app.signup.pc = "group"
    /\ \E ok \in BOOLEAN :
          app' = [app EXCEPT !.signup =
                     IF ok
                     THEN [@ EXCEPT !.groups = @ \cup {app.signup.id},
                                    !.pc = AfterGroup(app.signup.service)]
                     ELSE Failed(@, "group")]
    /\ UNCHANGED serviceVars

\* supabase.auth.admin.createUser.
CreateAuthUser ==
    /\ app.signup.pc = "user"
    /\ \E ok \in BOOLEAN :
          app' = [app EXCEPT !.signup =
                     IF ok
                     THEN [@ EXCEPT !.users = @ \cup {app.signup.id},
                                    !.pc = AfterUser(app.signup.service)]
                     ELSE Failed(@, "user")]
    /\ UNCHANGED serviceVars

\* The insert into members.
InsertMember ==
    /\ app.signup.pc = "member"
    /\ \E ok \in BOOLEAN :
          app' = [app EXCEPT !.signup =
                     IF ok
                     THEN [@ EXCEPT !.members = @ \cup {app.signup.id}, !.pc = "role"]
                     ELSE Failed(@, "member")]
    /\ UNCHANGED serviceVars

\* The lookup of the admin role.
AdminRoleLookup ==
    /\ app.signup.pc = "role"
    /\ \E ok \in BOOLEAN :
          app' = [app EXCEPT !.signup =
                     IF ok THEN [@ EXCEPT !.pc = "membership"] ELSE Failed(@, "role")]
    /\ UNCHANGED serviceVars

\* The insert into group_memberships.
InsertMembership ==
    /\ app.signup.pc = "membership"
    /\ \E ok \in BOOLEAN :
          app' = [app EXCEPT !.signup =
                     IF ok
                     THEN [@ EXCEPT !.group_memberships =
                                        @ \cup {AdminMembership(app.signup.id)},
                                    !.pc = "session"]
                     ELSE Failed(@, "membership")]
    /\ UNCHANGED serviceVars

\* One deletion of the failing step; its error is not looked at.
SignupCleanup ==
    /\ app.signup.pc = "cleanup"
    /\ \E ok \in BOOLEAN :
          LET table == Head(app.signup.cleanup)
              rest == Tail(app.signup.cleanup)
              id == app.signup.id
          IN  app' = [app EXCEPT
                         !.signup.groups = IF ok /\ table = "groups" THEN @ \ {id} ELSE @,
                         !.signup.users = IF ok /\ table = "users" THEN @ \ {id} ELSE @,
                         !.signup.members = IF ok /\ table = "members" THEN @ \ {id} ELSE @,
                         !.signup.cleanup = rest,
                         !.signup.pc = IF rest = <<>> THEN "thrown" ELSE "cleanup"]
    /\ UNCHANGED serviceVars

\* The sixth step: signInWithPassword (part_009, lines 172-180: a failure
\* leaves the result without token) or generateLink (part_010, lines
\* 159-164: 'temp-token' when no token comes back); then the return.
SignupSession ==
    /\ app.signup.pc = "session"
    /\ \E ok \in BOOLEAN :
          app' = [app EXCEPT !.signup.pc = "returned",
                             !.signup.token = ok \/ app.signup.service = "AuthService"]
    /\ UNCHANGED serviceVars

(***************************************************************************)
(* Specifications                                                          *)
(***************************************************************************)
InitCommon ==
    /\ now = 0
    /\ issuedTo = [t \in 1 .. MaxSessions |-> NoUser]
    /\ user_sessions = <<>>
    /\ req = [r \in Reqs |-> IdleReq]
    /\ audit_log = [r \in Reqs |-> <<>>]
    /\ security_incidents = [r \in Reqs |-> <<>>]

Init == InitCommon /\ faults = FALSE /\ mon = MonOff /\ app = AppOff

\* The start of the specifications of the monitoring service.
MonInit == InitCommon /\ faults = FALSE /\ mon = MonIdle /\ app = AppOff

\* The start of the specifications of the controllers and services.
AppInit == InitCommon /\ faults = FALSE /\ mon = MonOff /\ app = AppIdle

FaultInit == InitCommon /\ faults = TRUE /\ mon = MonOff /\ app = AppOff

\* Every token has been issued and has its session row, inserted now.
IssuedInit ==
    /\ now = 0
    /\ issuedTo \in [1 .. MaxSessions -> Members]
    /\ user_sessions = [t \in SessionIds |-> NewSessionRow(t, "ip1", 3 * HalfTimeout)]
    /\ req = [r \in Reqs |-> IdleReq]
    /\ audit_log = [r \in Reqs |-> <<>>]
    /\ security_incidents = [r \in Reqs |-> <<>>]
    /\ faults = FALSE
    /\ mon = MonOff

RaceInit == IssuedInit /\ app = AppOff

\* The sessions of RaceInit with the tables of the controllers.
GdprInit == IssuedInit /\ app = AppIdle

\* One gate request at a time.
SeqReqs == {"r1"}

\* One session row; the clock runs to MaxTime.  With one row the select of
\* performSecurityChecks never returns more than one session.
Next ==
    \/ Tick
    \/ \E m \in Members : loginWithEmail(m)
    \/ Inserted = {} /\ InsertSession
    \/ \E r \in SeqReqs : Arrive(r)
    \/ \E r \in SeqReqs : Verify(r)
    \/ \E r \in SeqReqs : Lookup(r)
    \/ \E r \in SeqReqs : RevokeExpired(r)
    \/ \E r \in SeqReqs : RevokeAutoLogout(r)
    \/ \E r \in SeqReqs : CountActive(r)
    \/ \E r \in SeqReqs : Touch(r)
    \/ \E r \in SeqReqs : Finish(r)
    \/ \E m \in Members : emergencySessionRevocation(m)

\* Up to MaxSessions rows; the clock makes one step, so that no deadline
\* passes (the first is InactivityMinutes after the insertion).
SessionsNext ==
    \/ now < HalfTimeout /\ Tick
    \/ \E m \in Members : loginWithEmail(m)
    \/ InsertSession
    \/ \E r \in SeqReqs : Arrive(r)
    \/ \E r \in SeqReqs : Verify(r)
    \/ \E r \in SeqReqs : Lookup(r)
    \/ \E r \in SeqReqs : CountActive(r)
    \/ \E r \in SeqReqs : RevokeOthers(r)
    \/ \E r \in SeqReqs : Touch(r)
    \/ \E r \in SeqReqs : Finish(r)
    \/ \E m \in Members : emergencySessionRevocation(m)

\* Two concurrent gate requests over a fixed set of sessions; the clock
\* stands still, so that no deadline passes.
RaceNext ==
    \/ \E r \in Reqs : Arrive(r)
    \/ \E r \in Reqs : Verify(r)
    \/ \E r \in Reqs : Lookup(r)
    \/ \E r \in Reqs : CountActive(r)
    \/ \E r \in Reqs : RevokeOthers(r)
    \/ \E r \in Reqs : Touch(r)
    \/ \E r \in Reqs : Finish(r)

Spec == Init /\ [][Next]_vars

SessionsSpec == Init /\ [][SessionsNext]_vars

RaceSpec == RaceInit /\ [][RaceNext]_vars

FaultSpec == FaultInit /\ [][Next]_vars

\* The two pure functions of the monitoring service over their inputs.
ScoreNext ==
    \/ ScoreEvent
    \/ BucketScore

ScoreSpec == MonInit /\ [][ScoreNext]_vars

\* Every token has its active session and the store may fail.
MonitorInit ==
    /\ now = 0
    /\ issuedTo \in [1 .. MaxSessions -> Members]
    /\ user_sessions = [t \in SessionIds |-> NewSessionRow(t, "ip1", 3 * HalfTimeout)]
    /\ req = [r \in Reqs |-> IdleReq]
    /\ audit_log = [r \in Reqs |-> <<>>]
    /\ security_incidents = [r \in Reqs |-> <<>>]
    /\ faults = TRUE
    /\ mon = MonIdle
    /\ app = AppOff

\* The monitoring service processes events one at a time; then the gate
\* serves requests one at a time.  The two share the user_sessions table.
MonitorNext ==
    \/ MonReceive
    \/ MonLog
    \/ MonIncident
    \/ MonRespond
    \/ MonPatterns
    \/ MonReturn
    \/ \E r \in SeqReqs : mon.pc = "idle" /\ Arrive(r)
    \/ \E r \in SeqReqs : Verify(r)
    \/ \E r \in SeqReqs : Lookup(r)
    \/ \E r \in SeqReqs : CountActive(r)
    \/ \E r \in SeqReqs : RevokeOthers(r)
    \/ \E r \in SeqReqs : Touch(r)
    \/ \E r \in SeqReqs : Finish(r)

MonitorSpec == MonitorInit /\ [][MonitorNext]_vars

\* The brute-force sweep over every content of the failed-login rows.
SweepNext ==
    \/ RecordFailure
    \/ BruteForceSweep

SweepSpec == MonInit /\ [][SweepNext]_vars

\* detectThreats over every outcome of its five sweeps.
ThreatNext ==
    \/ ThreatStart
    \/ ThreatSweep
    \/ ThreatReturn

ThreatSpec == MonInit /\ [][ThreatNext]_vars

\* analyzeUserBehavior over the audit rows of one member.
BehaviorNext ==
    \/ RecordActivity
    \/ BehaviorBaseline
    \/ BehaviorRecent
    \/ BehaviorReturn

BehaviorSpec == MonInit /\ [][BehaviorNext]_vars

\* The deletion request of one member: the member's cancellation and the
\* admin's processing run concurrently, next to the other audit writers.
GdprNext ==
    \/ RequestDeletion
    \/ LogEvent
    \/ CancelFetch
    \/ CancelUpdate
    \/ CancelLog
    \/ ProcessFetch
    \/ ProcessUpdate
    \/ ProcessErase
    \/ ProcessAnonymize
    \/ ProcessLog
    \/ HandlerReturn

GdprSpec == GdprInit /\ [][GdprNext]_vars

\* validate('createTask', d) over the request bodies tried.
ValidateNext ==
    \/ ValidateCreateTask
    \/ ValidateReturn

ValidateSpec == AppInit /\ [][ValidateNext]_vars

\* The group right after signup: its creator is its active admin.
MemberInit ==
    /\ now = 0
    /\ issuedTo = [t \in 1 .. MaxSessions |-> NoUser]
    /\ user_sessions = <<>>
    /\ req = [r \in Reqs |-> IdleReq]
    /\ audit_log = [r \in Reqs |-> <<>>]
    /\ security_incidents = [r \in Reqs |-> <<>>]
    /\ faults = FALSE
    /\ mon = MonOff
    /\ app = [AppIdle EXCEPT
                !.memberRows = {"m1"},
                !.memberships = [m \in Members |->
                    IF m = "m1" THEN [status |-> "active", role |-> "admin"]
                    ELSE NoMembership]]

\* The requests to the member controller and the member service, one at a
\* time.
MemberNext ==
    \/ MemberCall
    \/ MemberGuard
    \/ MemberList
    \/ InviteMemberRow
    \/ InviteMembership
    \/ InviteInvitation
    \/ MemberCheck
    \/ RemoveUpdate
    \/ RoleUpdate
    \/ MemberReturn

MemberSpec == MemberInit /\ [][MemberNext]_vars

\* The operations of the task service on two tasks.
TaskNext ==
    \/ createTask
    \/ updateTask
    \/ completeTask
    \/ assignTask
    \/ bulkUpdateTasks

TaskSpec == AppInit /\ [][TaskNext]_vars

\* Calls of signupWithEmail of both services, one after the other.
SignupNext ==
    \/ signupWithEmail
    \/ InsertGroup
    \/ CreateAuthUser
    \/ InsertMember
    \/ AdminRoleLookup
    \/ InsertMembership
    \/ SignupCleanup
    \/ SignupSession

SignupSpec == AppInit /\ [][SignupNext]_vars

\* One request at a time through the rate limiter, the gate, the
\* authorization checks and the consent check; the clock runs until the
\* inactivity deadline of the sessions has passed.
ChainNext ==
    \/ now < InactivityMinutes /\ Tick
    \/ \E r \in SeqReqs : RateLimited(r)
    \/ \E r \in SeqReqs : Arrive(r)
    \/ \E r \in SeqReqs : Verify(r)
    \/ \E r \in SeqReqs : Lookup(r)
    \/ \E r \in SeqReqs : RevokeAutoLogout(r)
    \/ \E r \in SeqReqs : CountActive(r)
    \/ \E r \in SeqReqs : RevokeOthers(r)
    \/ \E r \in SeqReqs : Touch(r)
    \/ \E r \in SeqReqs : Finish(r)
    \/ \E r \in SeqReqs : Authorize(r)
    \/ \E r \in SeqReqs : Consent(r)

ChainSpec == RaceInit /\ [][ChainNext]_vars

\* The sessions all belong to one member, so that every request of the
\* member finds the others, and store operations and the verifier can fail.
ChainFaultInit ==
    /\ now = 0
    /\ issuedTo = [t \in 1 .. MaxSessions |-> "m1"]
    /\ user_sessions = [t \in SessionIds |-> NewSessionRow(t, "ip1", 3 * HalfTimeout)]
    /\ req = [r \in Reqs |-> IdleReq]
    /\ audit_log = [r \in Reqs |-> <<>>]
    /\ security_incidents = [r \in Reqs |-> <<>>]
    /\ faults = TRUE
    /\ mon = MonOff
    /\ app = AppOff

\* The same with store operations and the verifier failing.
ChainFaultSpec == ChainFaultInit /\ [][ChainNext]_vars

TypeOK ==
    /\ now \in 0 .. (MaxTime + HalfTimeout)
    /\ issuedTo \in [1 .. MaxSessions -> Members \cup {NoUser}]
    /\ Inserted \subseteq SessionIds
    /\ \A s \in Inserted :
          /\ user_sessions[s].member_id \in Members
          /\ user_sessions[s].session_token = s
          /\ user_sessions[s].is_active \in BOOLEAN
          /\ user_sessions[s].revoked_reason \in RevocationReasons \cup {NullText}
          /\ user_sessions[s].ip_address \in Ips \cup {NullText}
    /\ \A r \in Reqs :
          /\ req[r].pc \in {"idle", "getUser", "lookup", "revoke_expired", "revoke_auto",
                            "count", "revoke_others", "touch", "profile", "done"}
          /\ req[r].status \in {"none", "next", "400", "401", "403", "404", "429", "451", "500"}
          /\ req[r].auth \in {"pending", "user", "error", "thrown"}
          /\ req[r].wrote \in BOOLEAN
    /\ faults \in BOOLEAN

(***************************************************************************)
(* Properties of the gate                                                  *)
(***************************************************************************)
\* Request r takes a step of requireAuth that leaves position pc.
Leaves(r, pc) == req[r].pc = pc /\ req'[r].pc # pc

\* The session rows with member id m, token t and is_active = true.
ActiveRowsFor(m, t) ==
    {s \in Inserted : /\ user_sessions[s].member_id = m
                      /\ user_sessions[s].session_token = t
                      /\ user_sessions[s].is_active = TRUE}

\* C1: the gate fails closed.  next() is called only for a request whose
\* token the verifier resolved and whose lookup returned a session row that
\* had the resolved member id, exactly the presented token and is_active =
\* true; a request whose token is unresolved, or whose lookup finds no such
\* row, is answered 401.
C1_FailClosed ==
    [][\A r \in Reqs :
          /\ (req'[r].status = "next" /\ req[r].status # "next")
                => req[r].auth = "user" /\ req[r].sid # 0
          /\ (req'[r].sid # 0 /\ req[r].sid = 0)
                => /\ req[r].auth = "user"
                   /\ req[r].token \in 1 .. MaxSessions
                   /\ req[r].user = issuedTo[req[r].token]
                   /\ req'[r].sid \in ActiveRowsFor(req[r].user, req[r].token)
          /\ (Leaves(r, "getUser") /\ req'[r].auth = "error")
                => req'[r].pc = "done" /\ req'[r].status = "401"
          /\ (Leaves(r, "lookup") /\ ActiveRowsFor(req[r].user, req[r].token) = {})
                => req'[r].pc = "done" /\ req'[r].status = "401"
      ]_vars

\* C1 witness: a request was let through.
C1_Witness == \E r \in Reqs : req[r].pc = "done" /\ req[r].status = "next"

\* C2: a request whose bearer token the verifier does not resolve is
\* answered 401 and has written exactly one audit event, invalid_token, no
\* incident, and has changed no session.
C2_UnresolvedToken ==
    [][\A r \in Reqs :
          (Leaves(r, "getUser") /\ req'[r].auth = "error")
             => /\ req'[r].pc = "done" /\ req'[r].status = "401"
                /\ Len(audit_log'[r]) = 1
                /\ audit_log'[r][1].action = "invalid_token"
                /\ audit_log'[r][1].event_type = "security"
                /\ security_incidents'[r] = <<>>
                /\ user_sessions' = user_sessions
      ]_vars

\* C2 witness: a request with an unresolved token was answered.
C2_Witness ==
    \E r \in Reqs : /\ req[r].pc = "done" /\ req[r].auth = "error"
                    /\ req[r].status = "401" /\ Len(audit_log[r]) = 1

\* C3: a request presenting an active session at a time now >= expires_at
\* is answered 401, and its session is set to is_active = false with
\* revoked_reason = 'expired'; auto_logout_at, last_activity_at and
\* ip_address of the session stay as they were.
C3_Expired ==
    [][\A r \in Reqs :
          /\ (Leaves(r, "lookup")
                /\ \E s \in ActiveRowsFor(req[r].user, req[r].token) :
                      user_sessions[s].expires_at <= now)
                => req'[r].pc = "revoke_expired" /\ req'[r].status = "none"
          /\ Leaves(r, "revoke_expired")
                => /\ req'[r].pc = "done" /\ req'[r].status = "401"
                   /\ user_sessions' =
                         [user_sessions EXCEPT ![req[r].sid] =
                             [@ EXCEPT !.is_active = FALSE, !.revoked_reason = "expired",
                                       !.revoked_at = now]]
      ]_vars

\* C3 witness: a request was answered 'Session expired' and its session is
\* revoked as expired, after an activity update had extended auto_logout_at
\* beyond expires_at.
C3_Witness ==
    \E r \in Reqs, s \in Inserted :
        /\ req[r].pc = "done" /\ req[r].error = "Session expired"
        /\ ~user_sessions[s].is_active
        /\ user_sessions[s].revoked_reason = "expired"
        /\ user_sessions[s].auto_logout_at > user_sessions[s].revoked_at

\* C4: a request presenting an active session at a time with
\* now >= auto_logout_at and now < expires_at is answered 401 and its
\* session is revoked with reason 'auto_logout'; when both deadlines have
\* passed the reason is 'expired'.
C4_AutoLogout ==
    [][\A r \in Reqs :
          /\ \A s \in ActiveRowsFor(req[r].user, req[r].token) :
                Leaves(r, "lookup") /\ user_sessions[s].auto_logout_at <= now
                   => IF now < user_sessions[s].expires_at
                      THEN req'[r].pc = "revoke_auto"
                      ELSE req'[r].pc = "revoke_expired"
          /\ Leaves(r, "revoke_auto")
                => /\ req'[r].pc = "done" /\ req'[r].status = "401"
                   /\ ~user_sessions'[req[r].sid].is_active
                   /\ user_sessions'[req[r].sid].revoked_reason = "auto_logout"
          /\ Leaves(r, "revoke_expired")
                => /\ req'[r].pc = "done" /\ req'[r].status = "401"
                   /\ ~user_sessions'[req[r].sid].is_active
                   /\ user_sessions'[req[r].sid].revoked_reason = "expired"
      ]_vars

\* C4 witness: a session revoked for inactivity before its expiry, and the
\* request answered 401.
C4_Witness ==
    \E r \in Reqs, s \in Inserted :
        /\ req[r].pc = "done" /\ req[r].status = "401"
        /\ req[r].error = "Session timed out due to inactivity"
        /\ user_sessions[s].revoked_reason = "auto_logout"
        /\ user_sessions[s].revoked_at < user_sessions[s].expires_at
        /\ user_sessions[s].auto_logout_at <= user_sessions[s].revoked_at

\* C5: every request the gate answers with 401 has written an audit_log
\* security event that carries the risk score of its failure category.
C5_Every401Audited ==
    \A r \in Reqs :
        (req[r].pc = "done" /\ req[r].status = "401")
           => \E i \in 1 .. Len(audit_log[r]) :
                 /\ audit_log[r][i].event_type = "security"
                 /\ audit_log[r][i].action \in {"invalid_token", "invalid_session", "auto_logout"}
                 /\ audit_log[r][i].risk_score = riskScores(audit_log[r][i].action)

\* C6: the activity update of an accepted request sets the session's
\* auto_logout_at to now + 30 minutes, last_activity_at to now and
\* ip_address to the request IP, and changes no other session.
C6_ActivityUpdate ==
    [][\A r \in Reqs :
          Leaves(r, "touch")
             => /\ req'[r].pc = "profile"
                /\ user_sessions' =
                      [user_sessions EXCEPT ![req[r].sid] =
                          [@ EXCEPT !.auto_logout_at = now + 30, !.last_activity_at = now,
                                    !.ip_address = req[r].ip]]
      ]_vars

\* C6 witness: an accepted request from another IP, later than the
\* insertion, has updated its session while a second session exists.
C6_Witness ==
    \E r \in Reqs, s \in Inserted :
        /\ req[r].pc = "profile" /\ req[r].sid = s /\ req[r].ip = "ip2"
        /\ now > 0
        /\ user_sessions[s].auto_logout_at = now + 30
        /\ user_sessions[s].last_activity_at = now
        /\ user_sessions[s].ip_address = "ip2"
        /\ Cardinality(Inserted) > 1

\* C7: session state is one-way.  No step makes an inactive session active
\* again, and every inactive session has a revoked_reason of the fixed set.
C7_OneWay ==
    [][\A s \in Inserted :
          /\ ~user_sessions[s].is_active => ~user_sessions'[s].is_active
          /\ ~user_sessions'[s].is_active
                => user_sessions'[s].revoked_reason \in
                      {"expired", "auto_logout", "multiple_sessions_detected",
                       "security_incident"}
      ]_vars

\* C7 witness: a gate request has updated the activity of a session that
\* was revoked after the lookup, and the session is still revoked.
C7_Witness ==
    \E r \in Reqs, s \in Inserted :
        /\ req[r].pc = "profile" /\ req[r].sid = s
        /\ ~user_sessions[s].is_active
        /\ user_sessions[s].last_activity_at > user_sessions[s].revoked_at

\* C8: a request that finds more than one active session of its member
\* revokes every active session of the member except the presented one,
\* with reason multiple_sessions_detected, leaves every other row as it
\* was, and writes a multiple_active_sessions event of severity high; the
\* member then has no active session other than the presented one.
C8_RevokeOthers ==
    [][\A r \in Reqs :
          /\ (Leaves(r, "count")
                /\ Cardinality({s \in Inserted : /\ user_sessions[s].member_id = req[r].user
                                                 /\ user_sessions[s].is_active}) > 1)
                => req'[r].pc = "revoke_others"
          /\ Leaves(r, "revoke_others")
                => /\ req'[r].pc = "touch"
                   /\ \A s \in Inserted :
                         IF /\ s # req[r].sid
                            /\ user_sessions[s].member_id = req[r].user
                            /\ user_sessions[s].is_active
                         THEN /\ ~user_sessions'[s].is_active
                              /\ user_sessions'[s].revoked_reason = "multiple_sessions_detected"
                         ELSE user_sessions'[s] = user_sessions[s]
                   /\ \E i \in 1 .. Len(audit_log'[r]) :
                         /\ i > Len(audit_log[r])
                         /\ audit_log'[r][i].action = "multiple_active_sessions"
                         /\ audit_log'[r][i].severity = "high"
                   /\ {s \in Inserted : /\ user_sessions'[s].member_id = req[r].user
                                        /\ user_sessions'[s].is_active} \subseteq {req[r].sid}
      ]_vars

\* C8 witness: the cleanup has run: another session of the member is
\* revoked as a duplicate, the presented one is active and the event is
\* logged.
C8_Witness ==
    \E r \in Reqs, s \in Inserted :
        /\ req[r].pc = "touch" /\ s # req[r].sid
        /\ user_sessions[req[r].sid].is_active
        /\ user_sessions[s].member_id = req[r].user
        /\ user_sessions[s].revoked_reason = "multiple_sessions_detected"
        /\ \E i \in 1 .. Len(audit_log[r]) :
              audit_log[r][i].action = "multiple_active_sessions"

\* C9: gate requests alone never leave a member with every session
\* revoked: whatever the interleaving of two requests of the member, one
\* of its sessions stays active.
C9_RaceKeepsASession ==
    \A m \in Members :
        (\E s \in Inserted : user_sessions[s].member_id = m)
           => \E s \in Inserted : user_sessions[s].member_id = m /\ user_sessions[s].is_active

\* C10: a successful login of a member revokes every session of the member
\* that was active before it.
C10_LoginRevokesPrevious ==
    [][\A m \in Members :
          (\E t \in 1 .. MaxSessions : issuedTo[t] = NoUser /\ issuedTo'[t] = m)
             => \A s \in Inserted :
                   user_sessions[s].member_id = m /\ user_sessions[s].is_active
                      => ~user_sessions'[s].is_active
      ]_vars

(***************************************************************************)
(* Properties of the monitoring service                                    *)
(***************************************************************************)
\* C11: the risk score of an event is the integer min(100, base + 20 if
\* repeated_attempts > 5 + 15 if new device + 15 if new location + 10 if
\* off-hours), base being the table entry of the event type or 30 for a
\* type that is no key of the table, and lies in 0 .. 100.
C11_RiskScore ==
    mon.pc = "scored" =>
        LET entry == baseScores(mon.eventType)
            base == IF mon.eventType \in TableEventTypes THEN entry.n ELSE 30
            expected == Min(100, base
                                 + (IF mon.details.repeated_attempts > 5 THEN 20 ELSE 0)
                                 + (IF mon.details.new_device THEN 15 ELSE 0)
                                 + (IF mon.details.new_location THEN 15 ELSE 0)
                                 + (IF mon.details.off_hours THEN 10 ELSE 0))
        IN  /\ mon.riskScore.tag = "number"
            /\ mon.riskScore.n = expected
            /\ mon.riskScore.n \in 0 .. 100

\* The order of the severity buckets.
SeverityRank(severity) ==
    CASE severity = "low" -> 0
      [] severity = "medium" -> 1
      [] severity = "high" -> 2
      [] severity = "critical" -> 3

\* C12: for a score s in 0 .. 100 the severity is critical iff s >= 90,
\* high iff 70 <= s < 90, medium iff 50 <= s < 70 and low iff s < 50; a
\* higher score never gets a lower severity than a lower score.
C12_SeverityBuckets ==
    mon.pc = "bucketed" =>
        LET s == mon.riskScore.n
        IN  /\ mon.severity = "critical" <=> s >= 90
            /\ mon.severity = "high" <=> (70 <= s /\ s < 90)
            /\ mon.severity = "medium" <=> (50 <= s /\ s < 70)
            /\ mon.severity = "low" <=> s < 50
            /\ \A t \in 0 .. s :
                  SeverityRank(calculateSeverity(Num(t))) <= SeverityRank(mon.severity)

\* C12 witness: a boundary score was bucketed into the upper bucket.
C12_Witness ==
    /\ mon.pc = "bucketed"
    /\ mon.riskScore = Num(70)
    /\ mon.severity = "high"

\* C13: every security_incidents row, inserted by the gate's
\* logSecurityEvent or by processSecurityEvent, belongs to an event whose
\* computed risk score is at least 70.
C13_IncidentsAboveThreshold ==
    /\ \A r \in Reqs : \A i \in 1 .. Len(security_incidents[r]) :
          calculateRiskScore(security_incidents[r][i].incident_type,
                             security_incidents[r][i].severity) >= 70
    /\ \A i \in 1 .. Len(mon.incidents) :
          /\ mon.incidents[i].risk_score = mon.riskScore
          /\ mon.riskScore.tag = "number"
          /\ mon.riskScore.n >= 70

\* C13 witness: the gate has inserted an incident for an event it logged
\* with a score of at least 70.
C13_Witness ==
    \E r \in Reqs :
        /\ Len(security_incidents[r]) > 0
        /\ \E j \in 1 .. Len(audit_log[r]) :
              /\ audit_log[r][j].action = security_incidents[r][1].incident_type
              /\ audit_log[r][j].risk_score >= 70

\* C14: when processSecurityEvent has finished with an event, exactly one
\* automated action, the one selected by the event type, has been executed
\* if the score is at least 80, whether or not the audit and incident
\* writes succeeded, and none if the score is below 80.
C14_AutomatedResponse ==
    mon.pc \in {"done", "failed"} =>
        IF mon.riskScore.tag = "number" /\ mon.riskScore.n >= 80
        THEN mon.responses = <<AutomatedAction(mon.eventType)>>
        ELSE mon.responses = <<>>

C16_BestEffortLogging ==
    [][\A r \in Reqs :
          /\ (Leaves(r, "getUser") /\ req'[r].auth = "error") => req'[r].status = "401"
          /\ (Leaves(r, "lookup") /\ req'[r].pc = "done") => req'[r].status = "401"
          /\ Leaves(r, "revoke_auto") => req'[r].status = "401"
          /\ Leaves(r, "revoke_others") => req'[r].pc = "touch"
          /\ (req'[r].pc = "done" /\ req'[r].auth = "pending" /\ req'[r] # req[r])
                => req'[r].status \in {"401", "429"}
          /\ (req[r].status = "next" /\ req'[r].status # "next" /\ req'[r].auth = "user")
                => req'[r].status \in {"400", "403", "451"}
          /\ (req'[r].status = "500" /\ req[r].status # "500")
                => \/ Leaves(r, "getUser") /\ req'[r].auth = "thrown"
                   \/ Leaves(r, "profile")
      ]_vars

\* C16 witness: a request with an unresolved token was answered 401
\* although the audit write of the event failed.
C16_Witness ==
    \E r \in Reqs :
        /\ req[r].pc = "done" /\ req[r].status = "401" /\ req[r].auth = "error"
        /\ audit_log[r] = <<>>

\* C17: a store failure during gate processing ends the request with 500.
\* A lookup that fails although the session row is there is not answered
\* 401, and a request whose revocation or activity update was not applied
\* is answered 500.
C17_StoreFailureIs500 ==
    [][\A r \in Reqs :
          /\ (Leaves(r, "lookup") /\ ActiveRowsFor(req[r].user, req[r].token) # {})
                => req'[r].status # "401"
          /\ (\/ Leaves(r, "touch")
              \/ Leaves(r, "revoke_expired")
              \/ Leaves(r, "revoke_auto"))
                => \/ user_sessions'[req[r].sid] # user_sessions[req[r].sid]
                   \/ req'[r].status = "500"
      ]_vars

\* C18: every request answered 403 for a missing permission, role, admin
\* right or group membership has written an audit event whose type ends in
\* _denied.
C18_DenialsAudited ==
    \A r \in Reqs :
        (req[r].pc = "done" /\ req[r].status = "403")
           => \E i \in 1 .. Len(audit_log[r]) :
                 audit_log[r][i].action \in
                    {"permission_denied", "role_denied", "group_access_denied",
                     "admin_access_denied"}

Contribution(k) == IF mon.outcomes[k].thrown THEN <<>> ELSE mon.outcomes[k].alerts

\* C20: detectThreats returns the concatenation, with nothing dropped, of
\* the alerts of its five sweeps, and what a sweep contributes does not
\* depend on the outcome, failure included, of any other sweep.
C20_IndependentSweeps ==
    mon.pc = "returned" =>
        mon.alerts = Contribution(1) \o Contribution(2) \o Contribution(3)
                        \o Contribution(4) \o Contribution(5)

(***************************************************************************)
(* Properties of the behaviour analysis                                    *)
(***************************************************************************)
\* The anomaly of a kind in the result of analyzeUserBehavior, if any.
Anomalies(kind) ==
    {i \in 1 .. Len(mon.analysis.anomalies) : mon.analysis.anomalies[i].kind = kind}

\* The rows written before the start of the window of the analysis.
Historical ==
    IF mon.timeWindow = "all" THEN {}
    ELSE {c \in ActivityClasses : c.age # "recent" /\ mon.activity[c] > 0}

\* C21: for a member without historical events, every hour and every IP
\* address of the recent activity is reported: non-empty recent activity
\* gives the unusual-hours anomaly with all its hours and, when a recent
\* event carries an IP address, the new-IP anomaly counting all of them.
C21_EmptyBaselineFlagsAll ==
    (mon.pc = "analysed" /\ Historical = {} /\ Present(mon.recent) # {}) =>
        /\ \E i \in Anomalies("Unusual access hours") :
              mon.analysis.anomalies[i].hours = {c.hour : c \in Present(mon.recent)}
        /\ LET ips == {c.ip : c \in Present(mon.recent)} \ {NullText}
           IN  ips # {} =>
                  \E i \in Anomalies("New IP addresses") :
                      mon.analysis.anomalies[i].count = Cardinality(ips)

\* C22: when all the historical rows of the member are from ip1, 720 of
\* them in the last 30 days, and the last day holds a burst of 60 rows from
\* ip2, the analysis reports the new-IP anomaly and the high-volume anomaly
\* and a risk score of at least 30.
C22_NewIpBurst ==
    (/\ mon.pc = "analysed"
     /\ mon.timeWindow = "day"
     /\ Historical # {}
     /\ \A c \in Historical : c.ip = "ip1" /\ c.age = "month"
     /\ Rows(mon.activity, Historical) = 720
     /\ Present(mon.recent) # {}
     /\ \A c \in Present(mon.recent) : c.ip = "ip2"
     /\ Length(mon.recent) = 60) =>
        /\ Anomalies("New IP addresses") # {}
        /\ Anomalies("Unusually high activity volume") # {}
        /\ mon.analysis.risk_score >= 30

(***************************************************************************)
(* Properties of the GDPR operations                                       *)
(***************************************************************************)
\* C23: the audit log is append-only: no step removes a row, and the only
\* change to an existing row is that its actor reference becomes null in
\* the audit step of a full account deletion.
C23_AuditAppendOnly ==
    [][/\ Len(app'.audit) >= Len(app.audit)
       /\ \A i \in 1 .. Len(app.audit) :
             \/ app'.audit[i] = app.audit[i]
             \/ /\ app'.audit[i] = [app.audit[i] EXCEPT !.actor_id = NullText]
                /\ app.process.pc = "anonymize"
                /\ app.request.request_type = "full"]_vars

\* C23 witness: a full deletion has nulled the actor of the member's
\* cancellation row, which was inserted with the member as actor, and has
\* left the row of the admin as it was.
C23_Witness ==
    /\ app.anonymized
    /\ app.process.pc = "log"
    /\ \E i, j \in 1 .. Len(app.audit) :
          /\ app.audit[i] = GdprAuditRow("gdpr", "deletion_cancelled", NullText)
          /\ app.audit[j] = GdprAuditRow("gdpr", "consent_updated", Admin)

\* C26: the status of a deletion request leaves 'pending' exactly once and
\* is never overwritten, and for a request that is cancelled no deletion
\* was executed.
C26_DeletionRace ==
    /\ app.transitions <= 1
    /\ app.request.status = "cancelled" => ~app.erased

(***************************************************************************)
(* Properties of the task validator                                        *)
(***************************************************************************)
\* C24: validate('createTask', d) accepts every d with a non-empty title,
\* a category and a priority of the enums and a UUID as groupId, with
\* description '' and urgent false when they are not given; and it throws
\* for an empty title, an unknown category or priority or a group
\* identifier that is no UUID.
C24_CreateTaskValidation ==
    app.pc = "validated" =>
        LET d == app.input
        IN  /\ (/\ d.title \in {"Test Task"}
                /\ d.category \in TaskCategory
                /\ d.priority \in TaskPriority
                /\ d.groupId \in Uuids) =>
                    /\ ~app.result.thrown
                    /\ d.description = Absent => app.result.description = ""
                    /\ d.urgent = Absent => app.result.urgent = "false"
            /\ (\/ d.title = ""
                \/ d.category = "InvalidCategory"
                \/ d.priority = "InvalidPriority"
                \/ (d.groupId = "invalid-uuid" /\ d.group_id \notin Uuids)
                \/ (d.group_id = "invalid-uuid")) => app.result.thrown

(***************************************************************************)
(* Properties of the member controller and the member service              *)
(***************************************************************************)
\* C25: when groupGuard has answered 403, the controller has no further
\* effect for the request: no member, membership or invitation row is
\* created and no member data of the group is read.
C25_GuardStopsController ==
    app.call.guard = "403" => app.call.effects = {}

C27_CompletedIffCompletedAt ==
    \A t \in TaskIds :
        app.tasks[t].status # "none" =>
            (app.tasks[t].status = "completed" <=> app.tasks[t].completed_at # NullText)

(***************************************************************************)
(* Properties of revoked sessions                                          *)
(***************************************************************************)
\* C28: a revoked session is never written again: no step changes
\* last_activity_at, auto_logout_at, ip_address, revoked_at or
\* revoked_reason of a session that is already inactive, and the gate calls
\* next() only for a request whose session is active at that moment.
C28_RevokedNeverWritten ==
    [][/\ \A s \in Inserted :
             ~user_sessions[s].is_active =>
                /\ s \in DOMAIN user_sessions'
                /\ user_sessions'[s].last_activity_at = user_sessions[s].last_activity_at
                /\ user_sessions'[s].auto_logout_at = user_sessions[s].auto_logout_at
                /\ user_sessions'[s].ip_address = user_sessions[s].ip_address
                /\ user_sessions'[s].revoked_at = user_sessions[s].revoked_at
                /\ user_sessions'[s].revoked_reason = user_sessions[s].revoked_reason
       /\ \A r \in Reqs :
             (req[r].pc = "profile" /\ req'[r].pc = "done" /\ req'[r].status = "next") =>
                user_sessions[req[r].sid].is_active]_vars

(***************************************************************************)
(* Properties of signupWithEmail                                           *)
(***************************************************************************)
\* Rows of the run that is in progress or has just ended.
SignupRows ==
    [group |-> app.signup.id \in app.signup.groups,
     user |-> app.signup.id \in app.signup.users,
     member |-> app.signup.id \in app.signup.members,
     membership |-> \E row \in app.signup.group_memberships :
                       row.member_id = app.signup.id]

\* C29: signupWithEmail is all-or-nothing: when it has thrown, none of the
\* group, auth-user, member or membership rows it created remains; when it
\* has returned, all four exist and the new member holds an active admin
\* membership in the new group.
C29_SignupAllOrNothing ==
    /\ app.signup.pc = "thrown" =>
          /\ ~SignupRows.group
          /\ ~SignupRows.user
          /\ ~SignupRows.member
          /\ ~SignupRows.membership
    /\ app.signup.pc = "returned" =>
          /\ SignupRows.group
          /\ SignupRows.user
          /\ SignupRows.member
          /\ AdminMembership(app.signup.id) \in app.signup.group_memberships

====
